---------------------------- MODULE Spec2Model ----------------------------
(***************************************************************************)
(* A model of the retrieval and ingestion back end of the AI document      *)
(* analyzer: hybrid mode selection (hybrid_rag_service.py), the chat turn  *)
(* (chat/views.py), smart retrieval and semantic ingestion                 *)
(* (enhanced_pinecone_service.py), paragraph chunking (chunking.py) and    *)
(* the upload pipeline (documents/views.py).                               *)
(*                                                                         *)
(* Each component has its own specification over the shared variables; a   *)
(* specification pins the variables of the other components.               *)
(***************************************************************************)
EXTENDS Integers, Sequences, FiniteSets, TLC

VARIABLES
    \* ---- hybrid mode selection ----
    full_context_limit,   \* HybridRAGService.full_context_limit
    modeCall,             \* the last call of the mode selector and its result
    \* ---- chat turn ----
    use_enhanced_rag,     \* settings.USE_ENHANCED_RAG
    index,                \* vector ids held by the session's namespace
    chatMessages,         \* ChatMessage rows of the session, oldest first
    turn,                 \* what the last ChatView.create did and returned
    \* ---- smart retrieval called on its own ----
    sr,                   \* the last smart_retrieval call and its result
    \* ---- upload pipeline ----
    documents,            \* Document rows: id -> row
    upload,               \* the last DocumentUploadView.post and its result
    \* ---- semantic ingestion ----
    ns,                   \* vectors of the namespace: set of vector records
    ing,                  \* per worker: position inside store_text_with_semantics
    ingDone,              \* completed ingestions, in completion order
    \* ---- chunk_text called on its own ----
    chunkCall,            \* the last text chunked twice and the two results
    \* ---- process_chunk called on its own ----
    enrichCall,           \* the last chunk processed and the two results
    \* ---- match normalization called on its own ----
    normCall,             \* the last pair of matches normalized and the results
    \* ---- context cache ----
    cache,                \* the Django cache: key -> entry
    cacheCall,            \* the last call on the context cache and its result
    \* ---- classic indexing of uploads ----
    classicNs,            \* vectors of the namespace written by PineconeEmbedding
    classicDocs           \* Document rows of the session and what indexing did

vars == << full_context_limit, modeCall, use_enhanced_rag, index, chatMessages,
           turn, sr, documents, upload, ns, ing, ingDone, cache, cacheCall,
           normCall, chunkCall, enrichCall, classicNs, classicDocs >>

modeVars   == << full_context_limit, modeCall >>
chatVars   == << use_enhanced_rag, index, chatMessages, turn >>
srVars     == << sr >>
uploadVars == << documents, upload >>
ingestVars == << ns, ing, ingDone >>
cacheVars  == << cache, cacheCall >>
normVars   == << normCall >>
chunkVars  == << chunkCall >>
enrichVars == << enrichCall >>
classicVars == << classicNs, classicDocs >>

Max(a, b) == IF a >= b THEN a ELSE b
Min(a, b) == IF a <= b THEN a ELSE b

Range(s) == { s[i] : i \in 1..Len(s) }

(***************************************************************************)
(*                       HYBRID MODE SELECTION                             *)
(***************************************************************************)

\* Bounds of the mode-selection check.
MaxChars == 8
MaxLimit == 6

\* A text of n characters; 'x' * n is the empty string for n <= 0.
XText(n) == [i \in 1..Max(n, 0) |-> "x"]

Texts == { XText(n) : n \in 0..MaxChars }

\* Mutant: the boundary is excluded.
should_use_full_context_strict(text, limit) == Len(text) < limit

\* HybridRAGService.should_use_full_context
should_use_full_context(text, limit) == Len(text) <= limit

\* HybridRAGService._get_mode_reason: which branch was reported.
get_mode_reason(char_count, use_full_context) ==
    IF use_full_context THEN "small" ELSE "large"

\* HybridRAGService.get_processing_mode
get_processing_mode(text, limit) ==
    LET char_count == Len(text)
        use_full   == should_use_full_context(text, limit)
    IN  [ mode             |-> IF use_full THEN "full_context" ELSE "embeddings",
          char_count       |-> char_count,
          estimated_tokens |-> char_count \div 4,
          threshold        |-> limit,
          reason           |-> get_mode_reason(char_count, use_full) ]

\* get_hybrid_retrieval_strategy
get_hybrid_retrieval_strategy(text_length, limit) ==
    IF should_use_full_context(XText(text_length), limit)
    THEN "full_context" ELSE "embeddings"

NoModeCall == [ fn |-> "none" ]

ModeInit ==
    /\ full_context_limit \in 0..MaxLimit
    /\ modeCall = NoModeCall

GetProcessingMode ==
    \E text \in Texts :
        modeCall' = [ fn     |-> "get_processing_mode",
                      len    |-> Len(text),
                      result |-> get_processing_mode(text, full_context_limit) ]

GetHybridRetrievalStrategy ==
    \E n \in (-1)..MaxChars :
        modeCall' = [ fn     |-> "get_hybrid_retrieval_strategy",
                      len    |-> Max(n, 0),
                      result |-> [ mode |-> get_hybrid_retrieval_strategy(n, full_context_limit) ] ]


(***************************************************************************)
(*                 THE VECTOR STORE AS SEEN BY A QUERY                     *)
(***************************************************************************)

\* Bound: the number of vector ids a namespace can hold in the checks.
NumVec == 6

VecIds == 1..NumVec

\* The similarity score of vector i for the query of the turn (descending in i).
Score(i) == 100 - 10 * i

\* The chunk text stored in the metadata of vector i; 0 is "no text".
TextOf(i) == IF i % 3 = 0 THEN 0 ELSE i

\* The chunk_index stored in the metadata of vector i: the chunk it indexes.
ChunkIndexOf(i) == i

\* The ids of S in ranked (descending score) order.
RECURSIVE Ranked(_)
Ranked(S) ==
    IF S = {} THEN << >>
    ELSE LET best == CHOOSE i \in S : \A j \in S : Score(i) >= Score(j)
         IN  << best >> \o Ranked(S \ {best})

Top(k, s) == SubSeq(s, 1, Min(k, Len(s)))

\* The client returns matches either as objects or as maps.
Shapes == { "obj", "map" }

\* The fields of a match, all present in what a query returns.
MatchFields == { "id", "score", "metadata" }

StoreMatch(i, shape) ==
    [ shape |-> shape, fields |-> MatchFields, id |-> i, score |-> Score(i),
      metadata |-> [ text |-> TextOf(i), chunk_index |-> ChunkIndexOf(i) ] ]

\* What a query over the vectors S returns when it succeeds.
QueryResult(S, top_k, shape) ==
    LET ids == Top(top_k, Ranked(S))
    IN  [ kind |-> "ok", shape |-> shape,
          matches |-> [ n \in 1..Len(ids) |-> StoreMatch(ids[n], shape) ] ]

NoResult    == [ kind |-> "none",  shape |-> "map", matches |-> << >> ]
QueryRaises == [ kind |-> "raise", shape |-> "map", matches |-> << >> ]
NotIssued   == [ kind |-> "not_issued", shape |-> "map", matches |-> << >> ]

\* PineconeEmbedding.similarity_search: the result object, or None when the
\* embedding call or the query raised.
similarity_search(S, top_k) ==
    { QueryResult(S, top_k, shape) : shape \in Shapes } \cup { NoResult }

\* engine.similarity_search(query, top_k, filters): the vector-store query
\* contract; F is the set of vectors the filter conjunction accepts.
engine_similarity_search(S, F, top_k) ==
    { QueryResult(S \cap F, top_k, shape) : shape \in Shapes }
        \cup { NoResult, QueryRaises }

(***************************************************************************)
(*                          SMART RETRIEVAL                                *)
(***************************************************************************)

\* results.get("matches", []) / getattr(results, "matches", []) or []
ExtractMatches(results) ==
    IF results.kind = "ok" THEN results.matches ELSE << >>

\* Python's None for an id or a score; ids and scores are not negative.
NoneVal == -1

\* The metadata values {} and None.
EmptyMetadata == [ text |-> 0, chunk_index |-> NoneVal ]
NoneMetadata  == [ text |-> NoneVal, chunk_index |-> NoneVal ]

NoneOf(f) == IF f = "metadata" THEN NoneMetadata ELSE NoneVal

\* bool(v) of a field's value: None, 0, "" (the id 0) and {} are falsy.
FieldTruthy(f, v) ==
    IF f = "metadata" THEN v \notin { EmptyMetadata, NoneMetadata }
    ELSE v \notin { NoneVal, 0 }

\* getattr(m, f, None): a map has no such attribute.
Getattr(m, f) == IF m.shape = "obj" /\ f \in m.fields THEN m[f] ELSE NoneOf(f)

\* m.get(f, default), which the client's objects answer like a map.
Get(m, f, default) == IF f \in m.fields THEN m[f] ELSE default

\* a or b
PyOr(f, a, b) == IF FieldTruthy(f, a) THEN a ELSE b

\* Mutant: only the attribute is read, without `or m.get(...)`.
NormalizeMatchAttrOnly(m) ==
    [ id       |-> Getattr(m, "id"),
      score    |-> Getattr(m, "score"),
      metadata |-> Getattr(m, "metadata") ]

\* The record built from a match: getattr(m, f, None) or m.get(f), with
\* the default {} for the metadata.
NormalizeMatch(m) ==
    [ id       |-> PyOr("id", Getattr(m, "id"), Get(m, "id", NoneVal)),
      score    |-> PyOr("score", Getattr(m, "score"), Get(m, "score", NoneVal)),
      metadata |-> PyOr("metadata", Getattr(m, "metadata"),
                        Get(m, "metadata", EmptyMetadata)) ]

NormalizeMatches(ms) == [ n \in 1..Len(ms) |-> NormalizeMatch(ms[n]) ]

\* Mutant: the fallback threshold uses the exact half of top_k.
FallbackNeededExactHalf(n, top_k) == 2 * n < Max(6, top_k)

\* len(matches) < max(3, top_k // 2)
FallbackNeeded(n, top_k) == n < Max(3, top_k \div 2)

\* Mutant: the fallback matches are pooled with the primary ones.
AfterFallbackPooled(primary_matches, fallback) ==
    primary_matches \o ExtractMatches(fallback)

\* matches = fallback_results.get("matches", []) (or [] for None)
AfterFallback(primary_matches, fallback) == ExtractMatches(fallback)

\* EnhancedPineconeService.smart_retrieval, given what the two queries do.
\* The fallback outcome is consulted only when the fallback is issued.
smart_retrieval(top_k, primary, fallback) ==
    IF primary.kind = "raise"
    THEN [ raised |-> TRUE, matches |-> << >>, calls |-> << "query_filtered" >>,
           fallback_issued |-> FALSE ]
    ELSE LET matches == ExtractMatches(primary)
         IN  IF FallbackNeeded(Len(matches), top_k)
             THEN IF fallback.kind = "raise"
                  THEN [ raised |-> TRUE, matches |-> << >>,
                         calls |-> << "query_filtered", "query_unfiltered" >>,
                         fallback_issued |-> TRUE ]
                  ELSE [ raised |-> FALSE,
                         matches |-> NormalizeMatches(AfterFallback(matches, fallback)),
                         calls |-> << "query_filtered", "query_unfiltered" >>,
                         fallback_issued |-> TRUE ]
             ELSE [ raised |-> FALSE, matches |-> NormalizeMatches(matches),
                    calls |-> << "query_filtered" >>, fallback_issued |-> FALSE ]

\* Bound: the largest top_k passed to smart_retrieval called on its own.
MaxTopK == 13

NoSrCall == [ called |-> FALSE ]

SRInit ==
    /\ index \in SUBSET VecIds
    /\ sr = NoSrCall

\* One call smart_retrieval(query, top_k, auto_filter): the query's intent
\* decides the filter, hence the set F of vectors the filter accepts; a
\* filter that leaves a vector out comes from a keyword of lines 279-299.
\* The unfiltered query has an outcome only when it is issued.
SmartRetrievalCall ==
    /\ sr = NoSrCall
    /\ \E top_k \in 1..MaxTopK, F \in SUBSET index :
       \E primary \in engine_similarity_search(index, F, top_k) :
       \E fallback \in IF primary.kind # "raise"
                          /\ FallbackNeeded(Len(ExtractMatches(primary)), top_k)
                       THEN engine_similarity_search(index, VecIds, top_k)
                       ELSE { NotIssued } :
           sr' = [ called   |-> TRUE,
                   top_k    |-> top_k,
                   keyword  |-> F # index,
                   primary  |-> primary,
                   fallback |-> fallback,
                   result   |-> smart_retrieval(top_k, primary, fallback) ]

(***************************************************************************)
(*                     THE CHAT TURN: ChatView.create                      *)
(***************************************************************************)

\* The session the user owns.
TheSession == "s1"

\* request.data["session_id"]: absent, the user's session, an unknown one.
SessionIds == { "", TheSession, "s9" }

\* request.data["message"]: empty, blank, a question.
Messages == { "", " ", "q" }

\* request.data["top_k"]: absent (-1000), not a number (-2000), or an integer.
TopKMissing  == -1000
TopKNotInt   == -2000
TopKInputs   == { TopKMissing, TopKNotInt, -1, 0, 12, 13 }

\* Mutant: the message is taken as sent, without strip().
StripNothing(message) == message

\* message.strip()
Strip(message) == IF message = " " THEN "" ELSE message

DefaultTopK == 10
MinTopK     == 12

\* Mutant: the parsed number is used as it is, without the minimum.
EffectiveTopKNoMinimum(raw) ==
    IF raw \in { TopKMissing, TopKNotInt } THEN DefaultTopK ELSE raw

\* int(request.data.get("top_k", 10)) with 10 on any exception, then the
\* minimum of 12.
EffectiveTopK(raw) ==
    LET parsed == IF raw \in { TopKMissing, TopKNotInt } THEN DefaultTopK ELSE raw
    IN  IF parsed < MinTopK THEN MinTopK ELSE parsed

\* What the collaborators of one turn do: the context cache read, the
\* database read of full-context documents, the completion call.
CacheOutcomes      == { "raise", "miss", "hit" }
DbOutcomes         == { "raise", "nodocs", "docs" }
CompletionOutcomes == { "ok", "raise" }

Truthy(full_context) == full_context \in { "cache", "db" }

\* The fixed context of a turn without any retrieved text.
Placeholder == [ kind |-> "placeholder", texts |-> << >> ]

\* context_texts: the truthy metadata texts of the matches, in order.
RECURSIVE ContextTexts(_)
ContextTexts(ms) ==
    IF ms = << >> THEN << >>
    ELSE LET t == Head(ms).metadata.text
         IN  (IF t # 0 THEN << t >> ELSE << >>) \o ContextTexts(Tail(ms))

\* The diagnostics records appended to retrieval, one per match: its score
\* and, from its metadata, the chunk index and the text snippet.
TraceOf(ms) ==
    [ n \in 1..Len(ms) |-> [ score       |-> ms[n].score,
                             chunk_index |-> ms[n].metadata.chunk_index,
                             snippet     |-> ms[n].metadata.text ] ]

\* Mutant: no placeholder context, the join of nothing is passed.
ContextForNoPlaceholder(context_texts) ==
    [ kind |-> "joined", texts |-> context_texts ]

\* similarity_text: "\n".join(context_texts), or the placeholder.
ContextFor(context_texts) ==
    IF context_texts # << >>
    THEN [ kind |-> "joined", texts |-> context_texts ]
    ELSE Placeholder

\* The locals of create() when the try block is entered.
Locals0 ==
    [ full_context  |-> "undef",
      retrieval_def |-> FALSE, retrieval |-> << >>, full_trace |-> FALSE,
      norm_def      |-> FALSE, norm_matches |-> << >>,
      ctx_def       |-> FALSE, ctx |-> Placeholder,
      llm_response  |-> "undef",
      calls         |-> << >>,
      exc           |-> FALSE ]

Raise(L, call) == [ L EXCEPT !.exc = TRUE, !.calls = @ \o << call >> ]

\* Lines 219-231: the cached session context, else the database.
LoadFullContext(L, enhanced, env) ==
    IF env.cache = "raise" THEN Raise(L, "cache_get")
    ELSE LET L1 == [ L EXCEPT !.full_context = IF env.cache = "hit" THEN "cache" ELSE "none",
                              !.calls = @ \o << "cache_get" >> ]
         IN  IF enhanced /\ ~Truthy(L1.full_context)
             THEN IF env.db = "raise" THEN Raise(L1, "db_read")
                  ELSE [ L1 EXCEPT !.full_context = IF env.db = "docs" THEN "db" ELSE "none",
                                   !.calls = @ \o << "db_read" >> ]
             ELSE L1

\* Lines 233-318: the three retrieval branches.
Retrieve(L, enhanced, top_k, env) ==
    IF enhanced /\ Truthy(L.full_context)
    THEN IF env.completion = "raise" THEN Raise(L, "complete_full")
         ELSE [ L EXCEPT !.llm_response = "answer",
                         !.retrieval_def = TRUE, !.full_trace = TRUE,
                         !.norm_def = TRUE, !.norm_matches = << >>,
                         !.calls = @ \o << "complete_full" >> ]
    ELSE IF enhanced
    THEN LET r == smart_retrieval(top_k, env.primary, env.fallback)
         IN  IF r.raised
             THEN [ L EXCEPT !.exc = TRUE, !.calls = @ \o r.calls ]
             ELSE [ L EXCEPT !.norm_def = TRUE, !.norm_matches = r.matches,
                             !.calls = @ \o r.calls ]
    ELSE [ L EXCEPT !.norm_def = TRUE,
                    !.norm_matches = NormalizeMatches(ExtractMatches(env.classic)),
                    !.calls = @ \o << "query_classic" >> ]

\* Lines 321-421: the context built from the matches and the completion
\* call over it; skipped when the full context is in use.
Answer(L, env) ==
    IF Truthy(L.full_context) THEN L
    ELSE LET ctx == ContextFor(ContextTexts(L.norm_matches))
             L1  == [ L EXCEPT !.retrieval_def = TRUE,
                               !.retrieval = @ \o TraceOf(L.norm_matches),
                               !.ctx_def = TRUE, !.ctx = ctx ]
         IN  IF env.completion = "raise" THEN Raise(L1, "complete_ctx")
             ELSE [ L1 EXCEPT !.llm_response = "answer",
                              !.calls = @ \o << "complete_ctx" >> ]

\* Lines 217-436: the try block, and the apology of the except clause.
TryBlock(enhanced, top_k, env) ==
    LET A == LoadFullContext(Locals0, enhanced, env)
        B == IF A.exc THEN A ELSE Retrieve(A, enhanced, top_k, env)
        C == IF B.exc THEN B ELSE Answer(B, env)
    IN  IF C.exc THEN [ C EXCEPT !.llm_response = "apology" ] ELSE C

NoTurn == [ phase |-> "none" ]

\* A response that ends the request before anything is persisted.
Rejected(req, code) ==
    [ phase |-> "done", req |-> req, status |-> code, escaped |-> FALSE,
      exc |-> FALSE, calls |-> << >>, mode |-> "none", top_k |-> 0,
      matches |-> << >>, full_trace |-> FALSE,
      norm_matches |-> << >>, ctx_def |-> FALSE, ctx |-> Placeholder,
      assistant |-> "none", primary |-> NotIssued, fallback |-> NotIssued,
      similarity_text |-> FALSE, full_context |-> "undef" ]

\* Mutant: the mode is full_context only for a context read from the cache.
ReportedModeCacheOnly(full_context) ==
    IF full_context = "cache" THEN "full_context" ELSE "embeddings"

\* Line 451: "full_context" if full_context else "embeddings".
ReportedMode(full_context) ==
    IF Truthy(full_context) THEN "full_context" ELSE "embeddings"

\* Lines 438-476: the assistant message and the response payload.  Reading
\* a local that was never bound raises out of the handler (status 500).
Respond(req, top_k, L, primary, fallback) ==
    LET persisted == L.llm_response # "undef"
        payload   == persisted /\ L.full_context # "undef" /\ L.retrieval_def
        full      == Truthy(L.full_context)
    IN  [ phase |-> "done", req |-> req,
          status  |-> IF payload THEN 201 ELSE 500,
          escaped |-> ~payload,
          exc     |-> L.exc,
          calls   |-> L.calls,
          mode    |-> IF ~payload THEN "none" ELSE ReportedMode(L.full_context),
          top_k   |-> IF payload /\ ~full THEN top_k ELSE 0,
          matches |-> IF payload THEN L.retrieval ELSE << >>,
          full_trace |-> payload /\ L.full_trace,
          norm_matches |-> L.norm_matches,
          ctx_def |-> L.ctx_def, ctx |-> L.ctx,
          assistant |-> IF persisted THEN L.llm_response ELSE "none",
          primary |-> primary, fallback |-> fallback,
          similarity_text |-> payload /\ req.debug /\ ~full /\ L.ctx.kind = "joined",
          full_context |-> L.full_context ]

\* The rows a session holds before the request: none, or one earlier exchange.
EarlierMessages ==
    { << >>,
      << [ type |-> "user", content |-> "message" ],
         [ type |-> "assistant", content |-> "answer" ] >> }

ChatInit ==
    /\ use_enhanced_rag \in BOOLEAN
    /\ index \in SUBSET VecIds
    /\ chatMessages \in EarlierMessages
    /\ turn = NoTurn

\* ChatView.create, lines 166-191: the requests that are turned away before
\* top_k and debug are read.
ChatRejected ==
    /\ turn = NoTurn
    /\ \E session_id \in SessionIds, message \in Messages :
        LET req == [ session_id |-> session_id, message |-> message,
                     top_k |-> TopKMissing, debug |-> FALSE ]
        IN  /\ session_id = "" \/ Strip(message) = "" \/ session_id # TheSession
            /\ turn' = Rejected(req, IF session_id = "" \/ Strip(message) = ""
                                     THEN 400 ELSE 404)
            /\ UNCHANGED << use_enhanced_rag, index, chatMessages >>

\* ChatView.create, lines 193-476: a request that passes validation.  A
\* collaborator has an outcome only when the handler reaches it; cacheOuts
\* is what the read of the session context cache can give.
ChatTurn(cacheOuts) ==
    /\ turn = NoTurn
    /\ \E message \in { m \in Messages : Strip(m) # "" },
          raw_top_k \in TopKInputs, debug \in BOOLEAN, cacheOut \in cacheOuts :
       \E db \in IF use_enhanced_rag /\ cacheOut = "miss" THEN DbOutcomes ELSE { "nodocs" } :
        LET top_k   == EffectiveTopK(raw_top_k)
            loaded  == LoadFullContext(Locals0, use_enhanced_rag,
                                       [ cache |-> cacheOut, db |-> db ])
            smart   == ~loaded.exc /\ use_enhanced_rag /\ ~Truthy(loaded.full_context)
            classicPath == ~loaded.exc /\ ~use_enhanced_rag
        IN  \E F \in IF smart THEN SUBSET index ELSE { {} } :
            \E primary \in IF smart THEN engine_similarity_search(index, F, top_k)
                           ELSE { NotIssued } :
            \E fallback \in IF smart /\ primary.kind # "raise"
                               /\ FallbackNeeded(Len(ExtractMatches(primary)), top_k)
                            THEN engine_similarity_search(index, VecIds, top_k)
                            ELSE { NotIssued },
               classic \in IF classicPath THEN similarity_search(index, top_k)
                           ELSE { NotIssued },
               completion \in IF loaded.exc THEN { "ok" } ELSE CompletionOutcomes :
            LET req == [ session_id |-> TheSession, message |-> message,
                         top_k |-> raw_top_k, debug |-> debug ]
                env == [ cache |-> cacheOut, db |-> db, completion |-> completion,
                         primary |-> primary, fallback |-> fallback,
                         classic |-> classic ]
                L   == TryBlock(use_enhanced_rag, top_k, env)
                r   == Respond(req, top_k, L,
                               IF classicPath THEN classic ELSE primary, fallback)
            IN  /\ turn' = r
                /\ chatMessages' =
                       chatMessages
                       \o << [ type |-> "user", content |-> "message" ] >>
                       \o (IF r.assistant # "none"
                           THEN << [ type |-> "assistant", content |-> r.assistant ] >>
                           ELSE << >>)
                /\ UNCHANGED << use_enhanced_rag, index >>

\* A chat turn whose cache read may hit, miss or raise.
ChatCreate == ChatTurn(CacheOutcomes)

(***************************************************************************)
(*                    PARAGRAPH CHUNKING: chunk_text                       *)
(***************************************************************************)

\* A text is the sequence of the pieces between its blank-line separators.
\* "" is a whitespace-only piece, "H1" and "H2" are section headers
\* ("1.0 SCOPE", "2.0 PROGRAMME"), the others are body paragraphs.
Paragraphs == { "", "H1", "H2", "a", "b", "c" }

\* len(encoding.encode(p)) of a paragraph.
EncodedLen(p) ==
    CASE p = ""   -> 0
      [] p = "H1" -> 1
      [] p = "H2" -> 1
      [] p = "a"  -> 1
      [] p = "b"  -> 2
      [] OTHER    -> 3

\* len(p.split()) of a paragraph: its words.
WordCount(p) ==
    CASE p = ""   -> 0
      [] p = "H1" -> 2
      [] p = "H2" -> 2
      [] p = "a"  -> 1
      [] p = "b"  -> 2
      [] OTHER    -> 3

\* What tiktoken.get_encoding does in a call of chunk_text: it returns the
\* encoding, or it raises (the encoding file is fetched on first use).
Encodings == { "loaded", "failed" }

\* Token counts are kept in tenths, the estimate being words * 1.3.
Tenths        == 10
EstimateTenths == 13

\* count_tokens of a paragraph: the encoded length, or the rough estimate
\* when the encoding cannot be had.
count_tokens(p, encoding) ==
    IF encoding = "loaded" THEN Tenths * EncodedLen(p) ELSE EstimateTenths * WordCount(p)

\* is_section_header
is_section_header(p) == p \in { "H1", "H2" }

\* extract_section_number(para) or para[:30]
extract_section_number(p) == IF p = "H1" THEN "1.0" ELSE "2.0"

\* The section of a chunk that precedes every header (None).
NoSection == "none"

ParaCode(p) ==
    CASE p = "H1" -> 1 [] p = "H2" -> 2 [] p = "a" -> 3 [] p = "b" -> 4
      [] p = "c" -> 5 [] OTHER -> 0

\* hashlib.sha256(chunk_text).hexdigest(): a digest of the joined text.
HashMod == 4096
RECURSIVE sha256(_)
sha256(chunk) ==
    IF chunk = << >> THEN 7
    ELSE (31 * sha256(SubSeq(chunk, 1, Len(chunk) - 1)) + ParaCode(chunk[Len(chunk)]) + 1) % HashMod

\* chunk_hash[:8]: the leading digits of the digest.
HashPrefix(h) == h \div 16

\* Mutant: the pieces are stripped and the blank ones are kept.
SplitParagraphsKeepBlank(text) == [ n \in 1..Len(text) |-> Strip(text[n]) ]

\* [p.strip() for p in text.split('\n\n') if p.strip()]
RECURSIVE SplitParagraphs(_)
SplitParagraphs(text) ==
    IF text = << >> THEN << >>
    ELSE (IF Strip(Head(text)) = "" THEN << >> ELSE << Strip(Head(text)) >>)
             \o SplitParagraphs(Tail(text))

RECURSIVE TokensOf(_, _)
TokensOf(chunk, encoding) ==
    IF chunk = << >> THEN 0
    ELSE count_tokens(Head(chunk), encoding) + TokensOf(Tail(chunk), encoding)

\* Mutant: the index counts from 1.
MakeChunkOneBased(current_chunk, current_tokens, current_section, chunks) ==
    [ text    |-> current_chunk,
      hash    |-> sha256(current_chunk),
      index   |-> Len(chunks) + 1,
      section |-> current_section,
      tokens  |-> current_tokens ]

\* The chunk appended at lines 62-68, 80-86 and 112-118.
MakeChunk(current_chunk, current_tokens, current_section, chunks) ==
    [ text    |-> current_chunk,
      hash    |-> sha256(current_chunk),
      index   |-> Len(chunks),
      section |-> current_section,
      tokens  |-> current_tokens ]

\* Lines 90-99: the trailing paragraphs of the closed chunk that fit in
\* overlap_tokens, taken from the last one backwards until one does not fit.
RECURSIVE OverlapContent(_, _, _)
OverlapContent(current_chunk, budget, encoding) ==
    IF current_chunk = << >> THEN << >>
    ELSE LET prev == current_chunk[Len(current_chunk)]
         IN  IF count_tokens(prev, encoding) <= budget
             THEN OverlapContent(SubSeq(current_chunk, 1, Len(current_chunk) - 1),
                                 budget - count_tokens(prev, encoding), encoding)
                      \o << prev >>
             ELSE << >>

\* Mutant: a header is packed like any other paragraph.
ChunkStepWithoutHeaders(st, para, max_tokens, overlap_tokens, encoding) ==
    LET para_tokens == count_tokens(para, encoding)
        overlap     == OverlapContent(st.current_chunk, Tenths * overlap_tokens, encoding)
    IN  IF st.current_tokens + para_tokens > Tenths * max_tokens
           /\ st.current_chunk # << >>
        THEN [ chunks          |-> Append(st.chunks,
                                          MakeChunk(st.current_chunk, st.current_tokens,
                                                    st.current_section, st.chunks)),
               current_chunk   |-> overlap \o << para >>,
               current_tokens  |-> TokensOf(overlap, encoding) + para_tokens,
               current_section |-> st.current_section,
               overlaps        |-> Append(st.overlaps, st.current_overlap),
               current_overlap |-> Len(overlap) ]
        ELSE [ st EXCEPT !.current_chunk  = Append(@, para),
                         !.current_tokens = @ + para_tokens ]

\* Lines 54-107: one paragraph of the loop.  overlaps and current_overlap
\* note how many leading paragraphs of each chunk are overlap_content; the
\* code builds the chunks the same way and keeps no such note.
ChunkStep(st, para, max_tokens, overlap_tokens, encoding) ==
    LET para_tokens == count_tokens(para, encoding)
        closed == Append(st.chunks,
                         MakeChunk(st.current_chunk, st.current_tokens,
                                   st.current_section, st.chunks))
    IN  IF is_section_header(para)
        THEN [ chunks          |-> IF st.current_chunk # << >> THEN closed ELSE st.chunks,
               current_chunk   |-> << para >>,
               current_tokens  |-> para_tokens,
               current_section |-> extract_section_number(para),
               overlaps        |-> IF st.current_chunk # << >>
                                   THEN Append(st.overlaps, st.current_overlap)
                                   ELSE st.overlaps,
               current_overlap |-> 0 ]
        ELSE IF st.current_tokens + para_tokens > Tenths * max_tokens
                /\ st.current_chunk # << >>
        THEN LET overlap == OverlapContent(st.current_chunk, Tenths * overlap_tokens,
                                           encoding)
             IN  [ chunks          |-> closed,
                   current_chunk   |-> overlap \o << para >>,
                   current_tokens  |-> TokensOf(overlap, encoding) + para_tokens,
                   current_section |-> st.current_section,
                   overlaps        |-> Append(st.overlaps, st.current_overlap),
                   current_overlap |-> Len(overlap) ]
        ELSE [ st EXCEPT !.current_chunk  = Append(@, para),
                         !.current_tokens = @ + para_tokens ]

RECURSIVE ChunkLoop(_, _, _, _, _)
ChunkLoop(st, paragraphs, max_tokens, overlap_tokens, encoding) ==
    IF paragraphs = << >> THEN st
    ELSE ChunkLoop(ChunkStep(st, Head(paragraphs), max_tokens, overlap_tokens, encoding),
                   Tail(paragraphs), max_tokens, overlap_tokens, encoding)

\* Lines 47-107: the paragraphs are split and the loop is run over them.
ChunkRun(text, max_tokens, overlap_tokens, encoding) ==
    ChunkLoop([ chunks |-> << >>, current_chunk |-> << >>,
                current_tokens |-> 0, current_section |-> NoSection,
                overlaps |-> << >>, current_overlap |-> 0 ],
              SplitParagraphs(text), max_tokens, overlap_tokens, encoding)

\* Mutant: the chunk still open when the paragraphs end is not appended.
chunk_text_without_last(text, max_tokens, overlap_tokens, encoding) ==
    ChunkRun(text, max_tokens, overlap_tokens, encoding).chunks

\* chunk_text(text, max_tokens, overlap_tokens) with what get_encoding does.
chunk_text(text, max_tokens, overlap_tokens, encoding) ==
    LET st == ChunkRun(text, max_tokens, overlap_tokens, encoding)
    IN  IF st.current_chunk # << >>
        THEN Append(st.chunks, MakeChunk(st.current_chunk, st.current_tokens,
                                         st.current_section, st.chunks))
        ELSE st.chunks

\* The number of overlap paragraphs at the start of each chunk returned.
overlap_prefixes(text, max_tokens, overlap_tokens, encoding) ==
    LET st == ChunkRun(text, max_tokens, overlap_tokens, encoding)
    IN  IF st.current_chunk # << >>
        THEN Append(st.overlaps, st.current_overlap)
        ELSE st.overlaps

(***************************************************************************)
(*                     chunk_text CALLED ON ITS OWN                        *)
(***************************************************************************)

\* Bound of the chunking check: the pieces of a text.
MaxPieces == 4

\* The pieces of the texts chunked: the paragraphs and a piece of spaces.
ChunkPieces == Paragraphs \cup { " " }

\* The texts: "" is << "" >>, since "".split gives one empty piece.
ChunkTexts == UNION { [ 1..n -> ChunkPieces ] : n \in 1..MaxPieces }

\* The max_tokens and overlap_tokens of the calls.
MaxTokensParams     == { 2, 3, 4 }
OverlapTokensParams == { 0, 1, 2 }

NoChunkCall == [ called |-> FALSE ]

ChunkInit == chunkCall = NoChunkCall

\* chunk_text run twice on one text with the same max_tokens and
\* overlap_tokens; get_encoding answers each run.
ChunkTextTwice ==
    /\ chunkCall = NoChunkCall
    /\ \E text \in ChunkTexts, max_tokens \in MaxTokensParams,
          overlap_tokens \in OverlapTokensParams, e1 \in Encodings, e2 \in Encodings :
        chunkCall' =
            [ called         |-> TRUE,
              text           |-> text,
              max_tokens     |-> max_tokens,
              overlap_tokens |-> overlap_tokens,
              encodings      |-> << e1, e2 >>,
              first          |-> chunk_text(text, max_tokens, overlap_tokens, e1),
              second         |-> chunk_text(text, max_tokens, overlap_tokens, e2),
              overlaps       |-> overlap_prefixes(text, max_tokens, overlap_tokens, e1) ]

(***************************************************************************)
(*        SEMANTIC INGESTION: store_text_with_semantics                    *)
(***************************************************************************)

\* Bounds of the ingestion check: settings.CHUNK_SIZE and CHUNK_OVERLAP
\* scaled to the paragraph sizes above, concurrent callers, calls in total.
CHUNK_SIZE     == 3
CHUNK_OVERLAP  == 1
NumWorkers     == 2
MaxIngestions  == 3

\* _create_enhanced_vectors embeds the chunks in batches of BATCH.
BATCH == 100

Workers == 1..NumWorkers
DocIds  == { "d1", "d2" }

\* The document texts ingested: a blank text (an empty piece and a piece
\* of spaces), two equal paragraphs that become two chunks, and a text whose second
\* chunk carries an overlap when the encoding is loaded and none when the
\* token counts are estimated.
IngestTexts ==
    { << "", " " >>, << "b", "b" >>, << "a", "c" >> }

\* The text of a call and what get_encoding does in it; the estimate is
\* taken for the text it chunks differently.
IngestInputs ==
    { in \in IngestTexts \X Encodings : in[2] = "failed" => in[1] = << "a", "c" >> }

\* enhance_chunks_for_rag: the chunk's own fields are kept, the enriched
\* embedding text is added.
enhance_chunks_for_rag(chunks) ==
    [ n \in 1..Len(chunks) |->
        [ text |-> chunks[n].text, hash |-> chunks[n].hash, index |-> chunks[n].index,
          section |-> chunks[n].section, tokens |-> chunks[n].tokens,
          embedding_text |-> << chunks[n].text, chunks[n].section >> ] ]

\* Mutant: the id is drawn per ingestion instead of derived from the chunk.
VectorIdPerIngestion(document_id, chunk, gen) ==
    << document_id, chunk.index, gen >>

\* vector_id = f"{document_id}:{chunk['index']}:{chunk_hash[:8]}"
VectorId(document_id, chunk, gen) ==
    << document_id, chunk.index, HashPrefix(chunk.hash) >>

\* _create_enhanced_vectors with every batch embedded: one vector per chunk.
\* gen stands for the timestamp written into the metadata.
create_enhanced_vectors(enhanced_chunks, document_id, gen) ==
    [ n \in 1..Len(enhanced_chunks) |->
        [ id          |-> VectorId(document_id, enhanced_chunks[n], gen),
          document_id |-> document_id,
          chunk_index |-> enhanced_chunks[n].index,
          gen         |-> gen ] ]

IdsOf(vectors) == { vectors[n].id : n \in 1..Len(vectors) }

\* engine._namespace_exists(): a namespace exists once it holds a vector.
namespace_exists(store) == store # {}

\* engine._delete_vectors_for_document(document_id): delete by filter.
delete_vectors_for_document(store, document_id) ==
    { v \in store : v.document_id # document_id }

\* engine.upsert_vectors(vectors): a vector replaces the one of its id.
upsert_vectors(store, vectors) ==
    { v \in store : v.id \notin IdsOf(vectors) } \cup Range(vectors)

Idle == [ pc |-> "idle", doc |-> "d1", text |-> << >>, encoding |-> "loaded",
          vectors |-> << >>, gen |-> 0 ]

IngestInit ==
    /\ ns = {}
    /\ ing = [ w \in Workers |-> Idle ]
    /\ ingDone = << >>

InFlight == { w \in Workers : ing[w].pc # "idle" }

Started == Len(ingDone) + Cardinality(InFlight)

\* What a finished call leaves for its caller: the returned result of a call
\* that succeeded, nothing but the exception of one that raised.
Finished(job, outcome, upserted) ==
    IF outcome = "ok"
    THEN [ doc |-> job.doc, text |-> job.text, encoding |-> job.encoding,
           gen |-> job.gen, outcome |-> "ok",
           upserted |-> upserted, ids |-> IdsOf(job.vectors) ]
    ELSE [ doc |-> job.doc, text |-> << >>, encoding |-> "loaded", gen |-> 0,
           outcome |-> outcome,
           upserted |-> 0, ids |-> {} ]

\* Lines 48-78: chunking, enrichment and embedding.  Without chunks the call
\* returns upserted = 0 at once; a failed embedding call raises.
IngestPrepare(w) ==
    \E d \in DocIds, in \in IngestInputs, embed \in { "ok", "raise" } :
        LET text        == in[1]
            encoding    == in[2]
            gen         == Started + 1
            base_chunks == chunk_text(text, CHUNK_SIZE, CHUNK_OVERLAP, encoding)
            vectors     == create_enhanced_vectors(enhance_chunks_for_rag(base_chunks), d, gen)
            job         == [ pc |-> "delete", doc |-> d, text |-> text,
                             encoding |-> encoding, vectors |-> vectors, gen |-> gen ]
        IN  /\ ing[w].pc = "idle"
            /\ Started < MaxIngestions
            /\ IF base_chunks = << >>
               THEN /\ ingDone' = Append(ingDone, Finished([ job EXCEPT !.vectors = << >> ], "ok", 0))
                    /\ UNCHANGED ing
               ELSE IF embed = "raise"
               THEN /\ ingDone' = Append(ingDone, Finished(job, "raise", 0))
                    /\ UNCHANGED ing
               ELSE /\ ing' = [ ing EXCEPT ![w] = job ]
                    /\ UNCHANGED ingDone
            /\ UNCHANGED ns

\* Lines 81-82: the old vectors of the document are deleted.
IngestDelete(w) ==
    /\ ing[w].pc = "delete"
    /\ \E outcome \in { "ok", "raise" } :
         IF outcome = "raise"
         THEN /\ ingDone' = Append(ingDone, Finished(ing[w], "raise", 0))
              /\ ing' = [ ing EXCEPT ![w] = Idle ]
              /\ UNCHANGED ns
         ELSE /\ ns' = IF namespace_exists(ns)
                       THEN delete_vectors_for_document(ns, ing[w].doc) ELSE ns
              /\ ing' = [ ing EXCEPT ![w].pc = "upsert" ]
              /\ UNCHANGED ingDone

\* Lines 84-92: the new vectors are upserted and the result returned.
IngestUpsert(w) ==
    /\ ing[w].pc = "upsert"
    /\ \E outcome \in { "ok", "raise" } :
         IF outcome = "raise"
         THEN /\ ingDone' = Append(ingDone, Finished(ing[w], "raise", 0))
              /\ UNCHANGED ns
         ELSE /\ ns' = upsert_vectors(ns, ing[w].vectors)
              /\ ingDone' = Append(ingDone, Finished(ing[w], "ok", Len(ing[w].vectors)))
    /\ ing' = [ ing EXCEPT ![w] = Idle ]

(***************************************************************************)
(*      THE UPLOAD PIPELINE: DocumentUploadView and the document views     *)
(***************************************************************************)

\* Bounds of the upload check: files per request, Document rows, writes of
\* a row's status.
MaxFiles   == 2
MaxDocs    == 2
MaxHistory == 4

FileNames == { "a.pdf", "b.pdf" }

\* Document.STATUS_CHOICES
Statuses == { "pending", "processing", "completed", "failed" }

\* What happens to one file of a batch: it is processed, the serializer
\* rejects it, text extraction raises, or indexing raises.
FileOutcomes == { "ok", "invalid", "extract_raise", "index_raise" }

RECURSIVE SeqsOver(_, _)
SeqsOver(S, n) ==
    IF n = 0 THEN { << >> }
    ELSE LET shorter == SeqsOver(S, n - 1)
         IN  shorter \cup { Append(q, x) : q \in { t \in shorter : Len(t) = n - 1 }, x \in S }

\* DocumentUploadSerializer.create: the row as first saved.
NewDocument(file_name) ==
    [ file_name |-> file_name, status |-> "pending", history |-> << "pending" >>,
      processing_error |-> "", live |-> "live" ]

\* document.status = s; document.save()
SetStatus(doc, s) == [ doc EXCEPT !.status = s, !.history = Append(@, s) ]

\* DocumentUploadView._process_document: the row after the call, the calls
\* made in order, and whether the exception was re-raised.
process_document(doc, outcome) ==
    LET processing == SetStatus(doc, "processing")
    IN  IF outcome = "extract_raise"
        THEN [ doc |-> SetStatus(processing, "failed"), raised |-> TRUE,
               log |-> << "save_processing", "extract", "save_failed" >> ]
        ELSE IF outcome = "index_raise"
        THEN [ doc |-> SetStatus(processing, "failed"), raised |-> TRUE,
               log |-> << "save_processing", "extract", "index", "save_failed" >> ]
        ELSE [ doc |-> SetStatus(processing, "completed"), raised |-> FALSE,
               log |-> << "save_processing", "extract", "index", "save_completed" >> ]

ExistsLive(docs, file_name) ==
    \E n \in 1..Len(docs) : docs[n].file_name = file_name /\ docs[n].live = "live"

\* DocumentUploadView.post, lines 68-118: the loop over the files.  A
\* duplicate name returns 204 at once; any exception ends the request with
\* status 500.
RECURSIVE UploadLoop(_, _, _, _, _)
UploadLoop(files, outcomes, docs, uploaded, log) ==
    IF files = << >>
    THEN [ docs |-> docs, status |-> 201, uploaded |-> uploaded, log |-> log ]
    ELSE IF ExistsLive(docs, Head(files))
    THEN [ docs |-> docs, status |-> 204, uploaded |-> uploaded, log |-> log ]
    ELSE IF Head(outcomes) = "invalid"
    THEN [ docs |-> docs, status |-> 500, uploaded |-> uploaded, log |-> log ]
    ELSE LET id == Len(docs) + 1
             p  == process_document(NewDocument(Head(files)), Head(outcomes))
             lg == log \o << << id, "create_pending" >> >>
                       \o [ n \in 1..Len(p.log) |-> << id, p.log[n] >> ]
         IN  IF p.raised
             THEN [ docs |-> Append(docs, p.doc), status |-> 500,
                    uploaded |-> uploaded, log |-> lg ]
             ELSE UploadLoop(Tail(files), Tail(outcomes), Append(docs, p.doc),
                             Append(uploaded, id), lg)

NoUpload == [ phase |-> "none" ]

UploadInit ==
    /\ documents = << >>
    /\ upload = NoUpload

\* DocumentUploadView.post
UploadPost ==
    \E files \in SeqsOver(FileNames, MaxFiles), session_known \in BOOLEAN :
    \E outcomes \in { o \in SeqsOver(FileOutcomes, MaxFiles) : Len(o) = Len(files) } :
        /\ Len(documents) + Len(files) <= MaxDocs
        /\ IF ~session_known
           THEN /\ upload' = [ phase |-> "done", files |-> files, outcomes |-> outcomes,
                               status |-> 404, uploaded |-> << >>, log |-> << >>,
                               first_id |-> Len(documents) + 1 ]
                /\ UNCHANGED documents
           ELSE IF files = << >>
           THEN /\ upload' = [ phase |-> "done", files |-> files, outcomes |-> outcomes,
                               status |-> 400, uploaded |-> << >>, log |-> << >>,
                               first_id |-> Len(documents) + 1 ]
                /\ UNCHANGED documents
           ELSE LET r == UploadLoop(files, outcomes, documents, << >>, << >>)
                IN  /\ upload' = [ phase |-> "done", files |-> files, outcomes |-> outcomes,
                                   status |-> r.status, uploaded |-> r.uploaded,
                                   log |-> r.log, first_id |-> Len(documents) + 1 ]
                    /\ documents' = r.docs

\* DocumentDetailView (RetrieveUpdateDestroyAPIView) PUT/PATCH through
\* DocumentSerializer, whose status field is writable.
DocumentUpdate ==
    \E n \in 1..Len(documents), s \in Statuses :
        /\ documents[n].live = "live"
        /\ Len(documents[n].history) < MaxHistory
        /\ documents' = [ documents EXCEPT ![n] = SetStatus(@, s) ]
        /\ UNCHANGED upload

\* DocumentSoftDeleteView.delete / Document.soft_delete
DocumentSoftDelete ==
    \E n \in 1..Len(documents) :
        /\ documents[n].live = "live"
        /\ documents' = [ documents EXCEPT ![n].live = "soft" ]
        /\ UNCHANGED upload

(***************************************************************************)
(*        THE CONTEXT CACHE: HybridRAGService over the Django cache        *)
(***************************************************************************)

\* str(session.id) and str(document.id), as the characters they are made of.
CacheSessions == { << "a" >>, << "a", "b" >> }
CacheDocs     == { << "b", "c" >>, << "c" >> }

\* Document texts; "" is an empty document.
CacheTexts == { "", "t1", "t2" }

\* Mutant: the key is built without the separators.
FullContextKeyNoSeparator(session_id, document_id) ==
    << "full_context" >> \o session_id \o document_id

\* cache_key = f"full_context:{session_id}:{document_id}"
FullContextKey(session_id, document_id) ==
    << "full_context", ":" >> \o session_id \o << ":" >> \o document_id

\* cache_key = f"full_context_session:{session_id}"
SessionKey(session_id) == << "full_context_session", ":" >> \o session_id

CacheKeys ==
    { FullContextKey(s, d) : s \in CacheSessions, d \in CacheDocs }
        \cup { SessionKey(s) : s \in CacheSessions }

\* cache.get(key) of a key that is absent or expired.
NoEntry == [ kind |-> "none" ]

\* json.dumps(data) and json.loads(cached)
Dumps(data)   == [ kind |-> "json", data |-> data ]
Loads(cached) == cached.data

\* A return value of None, of a document's text, of a combined text.
NotFound    == [ found |-> FALSE ]
Found(text) == [ found |-> TRUE, text |-> text ]
FoundCombined(combined_text) == [ found |-> TRUE, combined_text |-> combined_text ]

\* HybridRAGService.store_full_context: cache.set under the document's key.
store_full_context(c, session_id, document_id, text) ==
    [ c EXCEPT ![FullContextKey(session_id, document_id)] =
          Dumps([ text |-> text, char_count |-> Len(text) ]) ]

\* HybridRAGService.store_session_context: combined_text is given as the
\* documents whose texts it joins, in order.
store_session_context(c, session_id, combined_text, document_ids) ==
    [ c EXCEPT ![SessionKey(session_id)] =
          Dumps([ combined_text |-> combined_text, document_ids |-> document_ids,
                  char_count |-> Len(combined_text) ]) ]

\* HybridRAGService.clear_session_context: cache.delete of the session key.
clear_session_context(c, session_id) ==
    [ c EXCEPT ![SessionKey(session_id)] = NoEntry ]

\* HybridRAGService.get_all_session_context
get_all_session_context(c, session_id) ==
    LET cached == c[SessionKey(session_id)]
    IN  IF cached # NoEntry THEN FoundCombined(Loads(cached).combined_text) ELSE NotFound

\* HybridRAGService.get_full_context; the empty document_id asks for the
\* session's combined context.
get_full_context(c, session_id, document_id) ==
    IF document_id # << >>
    THEN LET cached == c[FullContextKey(session_id, document_id)]
         IN  IF cached # NoEntry THEN Found(Loads(cached).text) ELSE NotFound
    ELSE get_all_session_context(c, session_id)

EmptyCache  == [ k \in CacheKeys |-> NoEntry ]
NoCacheCall == [ fn |-> "none" ]

CacheInit ==
    /\ cache = EmptyCache
    /\ cacheCall = NoCacheCall

CacheStoreFullContext ==
    \E s \in CacheSessions, d \in CacheDocs, t \in CacheTexts :
        /\ cache' = store_full_context(cache, s, d, t)
        /\ cacheCall' = [ fn |-> "store_full_context", session_id |-> s,
                          document_id |-> d, text |-> t ]

\* The caller combines the texts of the documents it names.
CacheStoreSessionContext ==
    \E s \in CacheSessions, ids \in { << d >> : d \in CacheDocs }
                                    \cup { << d1, d2 >> : d1, d2 \in CacheDocs } :
        /\ cache' = store_session_context(cache, s, ids, ids)
        /\ cacheCall' = [ fn |-> "store_session_context", session_id |-> s,
                          document_ids |-> ids ]

CacheClearSessionContext ==
    \E s \in CacheSessions :
        /\ cache' = clear_session_context(cache, s)
        /\ cacheCall' = [ fn |-> "clear_session_context", session_id |-> s ]

CacheGetFullContext ==
    \E s \in CacheSessions, d \in CacheDocs \cup { << >> } :
        /\ cacheCall' = [ fn |-> "get_full_context", session_id |-> s,
                          document_id |-> d, result |-> get_full_context(cache, s, d) ]
        /\ UNCHANGED cache

CacheGetAllSessionContext ==
    \E s \in CacheSessions :
        /\ cacheCall' = [ fn |-> "get_all_session_context", session_id |-> s,
                          result |-> get_all_session_context(cache, s) ]
        /\ UNCHANGED cache

\* timeout=86400: an entry is gone 24 hours after it was set.
CacheExpire ==
    \E k \in CacheKeys :
        /\ cache[k] # NoEntry
        /\ cache' = [ cache EXCEPT ![k] = NoEntry ]
        /\ cacheCall' = [ fn |-> "expire", key |-> k ]

(***************************************************************************)
(*     THE CACHE, THE DOCUMENT ROWS AND THE CHAT TURN OF ONE SESSION       *)
(***************************************************************************)

\* str(session.id) of the session of the chat turn.
ChatSessionId == << "a" >>

\* str(document.id) of the n-th Document row.
DocCacheId(n) == IF n = 1 THEN << "b", "c" >> ELSE << "c" >>

\* A session with two completed full-context documents whose texts and
\* combined text are in the cache.
SessionCachedInit ==
    /\ documents = << process_document(NewDocument("a.pdf"), "ok").doc,
                      process_document(NewDocument("b.pdf"), "ok").doc >>
    /\ upload = NoUpload
    /\ cache = store_session_context(
                   store_full_context(
                       store_full_context(EmptyCache, ChatSessionId, DocCacheId(1), "t1"),
                       ChatSessionId, DocCacheId(2), "t2"),
                   ChatSessionId, << DocCacheId(1), DocCacheId(2) >>,
                   << DocCacheId(1), DocCacheId(2) >>)
    /\ cacheCall = NoCacheCall
    /\ use_enhanced_rag \in BOOLEAN
    /\ index = {}
    /\ chatMessages = << >>
    /\ turn = NoTurn

\* ChatView.create, line 220: the turn reads the session's combined context
\* from the cache, which gives what the cache holds or raises.
ChatTurnCached ==
    ChatTurn({ "raise",
               IF get_all_session_context(cache, ChatSessionId).found
               THEN "hit" ELSE "miss" })

(***************************************************************************)
(*                 MATCH NORMALIZATION CALLED ON ITS OWN                   *)
(***************************************************************************)

\* The values a match can carry: the id "" (0) and ids, the score 0 and
\* scores, the metadata {} and metadata with or without a text.
RawIds       == { 0, 1, 2, 3 }
RawScores    == { 0, 81, 93, 100 }
RawMetadatas == { EmptyMetadata, [ text |-> 0, chunk_index |-> 1 ],
                  [ text |-> 1, chunk_index |-> 1 ], [ text |-> 2, chunk_index |-> 2 ] }

\* A match of the given shape; a field that is not set holds nothing.
RawMatch(shape, fields, id, score, metadata) ==
    [ shape    |-> shape, fields |-> fields,
      id       |-> IF "id" \in fields THEN id ELSE NoneVal,
      score    |-> IF "score" \in fields THEN score ELSE NoneVal,
      metadata |-> IF "metadata" \in fields THEN metadata ELSE NoneMetadata ]

NoNormCall == [ called |-> FALSE ]

NormInit == normCall = NoNormCall

\* The normalization loop applied to an object and to a map of equal fields.
NormalizeCall ==
    \E fields \in SUBSET MatchFields, id \in RawIds, score \in RawScores,
       metadata \in RawMetadatas :
        normCall' = [ called |-> TRUE,
                      obj    |-> RawMatch("obj", fields, id, score, metadata),
                      map    |-> RawMatch("map", fields, id, score, metadata),
                      obj_result |-> NormalizeMatch(RawMatch("obj", fields, id, score, metadata)),
                      map_result |-> NormalizeMatch(RawMatch("map", fields, id, score, metadata)) ]

(***************************************************************************)
(*            SEMANTIC ENRICHMENT: SemanticProcessor.process_chunk         *)
(***************************************************************************)

\* The chunk texts processed: one without anything the patterns find, one
\* about a payment ("The Contractor shall pay the sum of 100 ..."), one
\* with a date and a percentage.
EnrichTexts == { "plain", "payment", "dated" }

\* extract_entities: the matches of PATTERNS, as (type, value).
extract_entities(text) ==
    CASE text = "payment" -> << [ type |-> "amount", value |-> "sum of 100" ],
                                [ type |-> "party", value |-> "Contractor shall" ],
                                [ type |-> "obligation", value |-> "shall pay" ] >>
      [] text = "dated"   -> << [ type |-> "percentage", value |-> "5%" ],
                                [ type |-> "date", value |-> "19/05/25" ],
                                [ type |-> "date", value |-> "01-05-2025" ],
                                [ type |-> "date", value |-> "1 May 2025" ] >>
      [] OTHER            -> << >>

\* classify_content_type: the CONTENT_TYPES with a keyword in the text.
classify_content_type(text) ==
    CASE text = "payment" -> << "financial", "obligation" >>
      [] text = "dated"   -> << "temporal" >>
      [] OTHER            -> << >>

\* extract_key_phrases
extract_key_phrases(text) ==
    CASE text = "payment" -> << "sum of 100", "Contractor shall pay the sum of 100" >>
      [] OTHER            -> << >>

\* seq[:n]
FirstN(seq, n) == SubSeq(seq, 1, Min(n, Len(seq)))

\* [e.value for e in entities if e.type == entity_type]
ValuesOfType(entities, entity_type) ==
    LET of_type == SelectSeq(entities, LAMBDA e : e.type = entity_type)
    IN  [ n \in 1..Len(of_type) |-> of_type[n].value ]

\* What json.loads of the completion gives: {} (or null), an object with or
\* without a topic, or a JSON value that is not an object.
EmptyDict == [ kind |-> "empty", topic |-> "" ]
LlmDict(topic) == [ kind |-> "dict", topic |-> topic ]
LlmList == [ kind |-> "list", topic |-> "" ]

\* What the completion call of enrich_chunk_with_llm does: it raises, it
\* returns no content, or it returns one of the JSON texts above.
LlmOutcomes == { "raise", "none", "empty", "topic", "no_topic", "list" }

\* SemanticProcessor.__init__: the client is constructed when the LLM is
\* asked for; if that raises, the processor turns the LLM off.
SemanticProcessor(use_llm_extraction, construct) ==
    IF use_llm_extraction /\ construct = "ok"
    THEN [ use_llm_extraction |-> TRUE, openai_service |-> "client" ]
    ELSE [ use_llm_extraction |-> FALSE, openai_service |-> "none" ]

\* Mutant: a failed call is reported inside the returned object.
enrich_chunk_with_llm_reporting(self, outcome) ==
    IF self.openai_service = "none" THEN LlmDict("unavailable")
    ELSE CASE outcome = "topic"    -> LlmDict("payments")
           [] outcome = "no_topic" -> LlmDict("")
           [] outcome = "list"     -> LlmList
           [] outcome = "empty"    -> EmptyDict
           [] OTHER                -> LlmDict("error")

\* enrich_chunk_with_llm: {} without a client; {} when the call raises or
\* json.loads raises on a missing content; else what json.loads returns.
enrich_chunk_with_llm(self, outcome) ==
    IF self.openai_service = "none" THEN EmptyDict
    ELSE CASE outcome = "topic"    -> LlmDict("payments")
           [] outcome = "no_topic" -> LlmDict("")
           [] outcome = "list"     -> LlmList
           [] OTHER                -> EmptyDict

\* create_enhanced_metadata.  A key the code leaves out is held as the
\* value its readers take for a missing key: [] for the *_values, {} for
\* llm_extracted.
create_enhanced_metadata(self, chunk, use_llm, outcome) ==
    LET entities     == extract_entities(chunk.text)
        llm_metadata == IF use_llm /\ self.use_llm_extraction
                        THEN enrich_chunk_with_llm(self, outcome)
                        ELSE EmptyDict
    IN  [ chunk_index       |-> chunk.index,
          section           |-> chunk.section,
          content_types     |-> classify_content_type(chunk.text),
          key_phrases       |-> extract_key_phrases(chunk.text),
          entity_counts     |->
              [ amounts     |-> Len(ValuesOfType(entities, "amount")),
                dates       |-> Len(ValuesOfType(entities, "date")),
                percentages |-> Len(ValuesOfType(entities, "percentage")),
                parties     |-> Len(ValuesOfType(entities, "party")),
                clauses     |-> Len(ValuesOfType(entities, "clause_reference")) ],
          amount_values     |-> FirstN(ValuesOfType(entities, "amount"), 5),
          percentage_values |-> FirstN(ValuesOfType(entities, "percentage"), 5),
          date_values       |-> FirstN(ValuesOfType(entities, "date"), 5),
          party_values      |-> FirstN(ValuesOfType(entities, "party"), 5),
          llm_extracted     |-> llm_metadata ]

\* One tag of the entity line: the first two values of a type.
EntityTag(entity_type, values) ==
    IF values = << >> THEN << >> ELSE << << entity_type, FirstN(values, 2) >> >>

\* create_enhanced_embedding_text: the parts joined by newlines.
create_enhanced_embedding_text(text, metadata) ==
    LET entity_tags == EntityTag("amount", metadata.amount_values)
                           \o EntityTag("percentage", metadata.percentage_values)
                           \o EntityTag("date", metadata.date_values)
    IN  << << "text", text >> >>
        \o (IF metadata.section \notin { NoSection, "" }
            THEN << << "Section", metadata.section >> >> ELSE << >>)
        \o (IF metadata.content_types # << >>
            THEN << << "Content", metadata.content_types >> >> ELSE << >>)
        \o (IF metadata.key_phrases # << >>
            THEN << << "Key terms", FirstN(metadata.key_phrases, 3) >> >> ELSE << >>)
        \o (IF entity_tags # << >> THEN << << "Entities", entity_tags >> >> ELSE << >>)
        \o (IF metadata.llm_extracted.topic # ""
            THEN << << "Topic", metadata.llm_extracted.topic >> >> ELSE << >>)

\* What process_chunk leaves its caller when llm_data.get raises: a JSON
\* value that is not an object has no get.
ProcessRaised == [ raised |-> TRUE, enriched_text |-> << >>, metadata |-> << >> ]

\* process_chunk: the metadata, then the embedding text built from it.
process_chunk(self, chunk, use_llm_enrichment, outcome) ==
    LET metadata == create_enhanced_metadata(self, chunk, use_llm_enrichment, outcome)
    IN  IF metadata.llm_extracted.kind = "list"
        THEN ProcessRaised
        ELSE [ raised        |-> FALSE,
               enriched_text |-> create_enhanced_embedding_text(chunk.text, metadata),
               metadata      |-> metadata ]

\* The chunks processed: a text, an index, a section or none.
EnrichChunks ==
    [ text : EnrichTexts, index : { 0, 1 }, section : { NoSection, "1.0" } ]

NoEnrichCall == [ called |-> FALSE ]

EnrichInit == enrichCall = NoEnrichCall

\* A processor is constructed and processes one chunk; beside the result
\* stands what a processor constructed with the LLM off returns.
ProcessChunk ==
    /\ enrichCall = NoEnrichCall
    /\ \E chunk \in EnrichChunks, use_llm_extraction \in BOOLEAN,
          use_llm_enrichment \in BOOLEAN, construct \in { "ok", "raise" },
          outcome \in LlmOutcomes :
        enrichCall' =
            [ called             |-> TRUE,
              chunk              |-> chunk,
              use_llm_extraction |-> use_llm_extraction,
              use_llm_enrichment |-> use_llm_enrichment,
              construct          |-> construct,
              outcome            |-> outcome,
              result             |-> process_chunk(SemanticProcessor(use_llm_extraction, construct),
                                                   chunk, use_llm_enrichment, outcome),
              regex_only         |-> process_chunk(SemanticProcessor(FALSE, construct),
                                                   chunk, FALSE, outcome) ]

(***************************************************************************)
(*      THE CLASSIC INDEXING OF UPLOADS: PineconeEmbedding.main            *)
(***************************************************************************)

\* id = file_name[:30]
IdPrefixLen == 30

\* batch_size of upsert_generated_vector_embeddings
batch_size == 20

\* file.name of an upload, as the characters it is made of: a short name
\* and two names that differ after their first 30 characters only.
LongStem == [ i \in 1..IdPrefixLen |-> "x" ]
UploadNames ==
    { << "a" >>, Append(LongStem, "1"), Append(LongStem, "2") }

\* The extracted text, as what main and the splitter make of it: whether it
\* is truthy, and the number of chunks split_text yields: none, one, or
\* one more than a batch holds.
UploadTexts ==
    { [ truthy |-> FALSE, chunks |-> 0 ] }
        \cup { [ truthy |-> TRUE, chunks |-> n ] : n \in { 0, 1, batch_size + 1 } }

\* main, lines 317-321: the id of a call that passes none.
DefaultId(file_name) ==
    IF file_name # << >>
    THEN SubSeq(file_name, 1, Min(Len(file_name), IdPrefixLen))
    ELSE << "doc_unknown" >>

\* unique_chunk_id = f"{id}-chunk-{chunk_idx}"
unique_chunk_id(id, chunk_idx) ==
    IF id # << >> THEN << id, "-chunk-", chunk_idx >>
    ELSE << << "doc_unknown" >>, "-chunk-", chunk_idx >>

\* The vectors of the first n chunks.
VectorsOfChunks(n, id, file_name) ==
    [ k \in 1..n |-> [ id          |-> unique_chunk_id(id, k - 1),
                       document_id |-> << id, "-", file_name >>,
                       chunk_index |-> k - 1 ] ]

\* Mutant: a failed embedding call returns the vectors made before it.
create_vector_embeddings_partial(text, id, file_name, embed_fail) ==
    LET made == IF embed_fail # 0 THEN embed_fail - 1 ELSE text.chunks
    IN  [ none     |-> made = 0,
          vectors  |-> VectorsOfChunks(made, id, file_name),
          embedded |-> made ]

\* create_vector_embeddings: one embeddings.create per chunk; embed_fail is
\* the chunk whose call raises (0: none).  Any exception, and an empty
\* list, give None.
create_vector_embeddings(text, id, file_name, embed_fail) ==
    LET made == IF embed_fail # 0 THEN embed_fail - 1 ELSE text.chunks
        none == embed_fail # 0 \/ text.chunks = 0
    IN  [ none     |-> none,
          vectors  |-> IF none THEN << >> ELSE VectorsOfChunks(made, id, file_name),
          embedded |-> made ]

\* Batches of a list of n vectors.
NumBatches(n) == (n + batch_size - 1) \div batch_size

\* upsert_generated_vector_embeddings: batches of batch_size in order;
\* upsert_fail is the batch whose upsert raises (0: none).  len(None) raises.
upsert_generated_vector_embeddings(store, embeddings, upsert_fail) ==
    IF embeddings.none
    THEN [ store |-> store, raised |-> TRUE, upserted |-> << >> ]
    ELSE LET n    == Len(embeddings.vectors)
             done == IF upsert_fail # 0 THEN (upsert_fail - 1) * batch_size ELSE n
             sent == SubSeq(embeddings.vectors, 1, done)
         IN  [ store    |-> upsert_vectors(store, sent),
               raised   |-> upsert_fail # 0,
               upserted |-> sent ]

\* PineconeEmbedding.main(text=..., file_name=...): the index is looked up,
\* then a truthy text is embedded and upserted.
main(store, text, file_name, env) ==
    IF env.setup = "raise"
    THEN [ store |-> store, raised |-> TRUE, embedded |-> 0, upserted |-> << >> ]
    ELSE IF ~text.truthy
    THEN [ store |-> store, raised |-> FALSE, embedded |-> 0, upserted |-> << >> ]
    ELSE LET id         == DefaultId(file_name)
             embeddings == create_vector_embeddings(text, id, file_name, env.embed_fail)
             r          == upsert_generated_vector_embeddings(store, embeddings, env.upsert_fail)
         IN  [ store |-> r.store, raised |-> r.raised,
               embedded |-> embeddings.embedded, upserted |-> r.upserted ]

\* A Document row with what its indexing did: the chunks of its text, the
\* embeddings made, the vector ids written.
IndexedDocument(doc, chunks, embedded, written) ==
    [ file_name |-> doc.file_name, status |-> doc.status, history |-> doc.history,
      live |-> doc.live, chunks |-> chunks, embedded |-> embedded, written |-> written ]

\* DocumentUploadView._process_document with PineconeEmbedding.main in it.
process_document_classic(store, doc, text, env) ==
    LET processing == SetStatus(doc, "processing")
    IN  IF env.extract = "raise"
        THEN [ store |-> store,
               doc   |-> IndexedDocument(SetStatus(processing, "failed"), 0, 0, {}) ]
        ELSE LET r == main(store, text, doc.file_name, env)
             IN  [ store |-> r.store,
                   doc   |-> IndexedDocument(
                                 SetStatus(processing, IF r.raised THEN "failed" ELSE "completed"),
                                 text.chunks, r.embedded, IdsOf(r.upserted)) ]

ClassicInit ==
    /\ classicNs = {}
    /\ classicDocs = << >>

\* DocumentUploadView.post with one file: a name that a live document of
\* the session bears is turned away, any other is saved and processed.
ClassicUpload ==
    /\ Len(classicDocs) < MaxDocs
    /\ \E file_name \in UploadNames, text \in UploadTexts,
          extract \in { "ok", "raise" }, setup \in { "ok", "raise" } :
       \E embed_fail \in 0..(IF extract = "ok" /\ setup = "ok" THEN text.chunks ELSE 0) :
       \E upsert_fail \in 0..(IF extract = "ok" /\ setup = "ok" /\ embed_fail = 0
                              THEN NumBatches(text.chunks) ELSE 0) :
        LET env == [ extract |-> extract, setup |-> setup,
                     embed_fail |-> embed_fail, upsert_fail |-> upsert_fail ]
            r   == process_document_classic(classicNs, NewDocument(file_name), text, env)
        IN  /\ ~ExistsLive(classicDocs, file_name)
            /\ classicNs' = r.store
            /\ classicDocs' = Append(classicDocs, r.doc)

\* DocumentSoftDeleteView.delete: the row is marked, its vectors stay.
ClassicSoftDelete ==
    \E n \in 1..Len(classicDocs) :
        /\ classicDocs[n].live = "live"
        /\ classicDocs' = [ classicDocs EXCEPT ![n].live = "soft" ]
        /\ UNCHANGED classicNs

(***************************************************************************)
(*                          THE SPECIFICATIONS                             *)
(***************************************************************************)

ModePinned   == full_context_limit = 0 /\ modeCall = NoModeCall
ChatPinned   == use_enhanced_rag = FALSE /\ chatMessages = << >> /\ turn = NoTurn
IndexPinned  == index = {}
SrPinned     == sr = NoSrCall
UploadPinned == documents = << >> /\ upload = NoUpload
IngestPinned == ns = {} /\ ing = [ w \in Workers |-> Idle ] /\ ingDone = << >>
CachePinned  == cache = EmptyCache /\ cacheCall = NoCacheCall
NormPinned   == normCall = NoNormCall
ChunkPinned  == chunkCall = NoChunkCall
EnrichPinned == enrichCall = NoEnrichCall
ClassicPinned == classicNs = {} /\ classicDocs = << >>

\* Mode selection.
InitMode == ModeInit /\ ChatPinned /\ IndexPinned /\ SrPinned /\ UploadPinned /\ IngestPinned /\ CachePinned /\ NormPinned /\ ChunkPinned /\ EnrichPinned /\ ClassicPinned
NextMode ==
    \/ GetProcessingMode /\ UNCHANGED << full_context_limit, chatVars, srVars, uploadVars, ingestVars, cacheVars, normVars, chunkVars, enrichVars, classicVars >>
    \/ GetHybridRetrievalStrategy /\ UNCHANGED << full_context_limit, chatVars, srVars, uploadVars, ingestVars, cacheVars, normVars, chunkVars, enrichVars, classicVars >>
SpecMode == InitMode /\ [][NextMode]_vars

\* smart_retrieval called on its own.
InitSR == SRInit /\ ModePinned /\ ChatPinned /\ UploadPinned /\ IngestPinned /\ CachePinned /\ NormPinned /\ ChunkPinned /\ EnrichPinned /\ ClassicPinned
NextSR == SmartRetrievalCall /\ UNCHANGED << modeVars, chatVars, uploadVars, ingestVars, cacheVars, normVars, chunkVars, enrichVars, classicVars >>
SpecSR == InitSR /\ [][NextSR]_vars

\* The chat turn.
InitChat == ChatInit /\ ModePinned /\ SrPinned /\ UploadPinned /\ IngestPinned /\ CachePinned /\ NormPinned /\ ChunkPinned /\ EnrichPinned /\ ClassicPinned
NextChat ==
    \/ ChatRejected /\ UNCHANGED << modeVars, srVars, uploadVars, ingestVars, cacheVars, normVars, chunkVars, enrichVars, classicVars >>
    \/ ChatCreate /\ UNCHANGED << modeVars, srVars, uploadVars, ingestVars, cacheVars, normVars, chunkVars, enrichVars, classicVars >>
SpecChat == InitChat /\ [][NextChat]_vars

\* The upload pipeline.
InitUpload == UploadInit /\ ModePinned /\ ChatPinned /\ IndexPinned /\ SrPinned /\ IngestPinned /\ CachePinned /\ NormPinned /\ ChunkPinned /\ EnrichPinned /\ ClassicPinned
NextUpload ==
    \/ UploadPost /\ UNCHANGED << modeVars, chatVars, srVars, ingestVars, cacheVars, normVars, chunkVars, enrichVars, classicVars >>
    \/ DocumentUpdate /\ UNCHANGED << modeVars, chatVars, srVars, ingestVars, cacheVars, normVars, chunkVars, enrichVars, classicVars >>
    \/ DocumentSoftDelete /\ UNCHANGED << modeVars, chatVars, srVars, ingestVars, cacheVars, normVars, chunkVars, enrichVars, classicVars >>
SpecUpload == InitUpload /\ [][NextUpload]_vars

\* Semantic ingestion by concurrent callers.
InitIngest == IngestInit /\ ModePinned /\ ChatPinned /\ IndexPinned /\ SrPinned /\ UploadPinned /\ CachePinned /\ NormPinned /\ ChunkPinned /\ EnrichPinned /\ ClassicPinned
NextIngest ==
    \E w \in Workers :
        \/ IngestPrepare(w) /\ UNCHANGED << modeVars, chatVars, srVars, uploadVars, cacheVars, normVars, chunkVars, enrichVars, classicVars >>
        \/ IngestDelete(w) /\ UNCHANGED << modeVars, chatVars, srVars, uploadVars, cacheVars, normVars, chunkVars, enrichVars, classicVars >>
        \/ IngestUpsert(w) /\ UNCHANGED << modeVars, chatVars, srVars, uploadVars, cacheVars, normVars, chunkVars, enrichVars, classicVars >>
SpecIngest == InitIngest /\ [][NextIngest]_vars

\* The context cache on its own.
InitCache == CacheInit /\ ModePinned /\ ChatPinned /\ IndexPinned /\ SrPinned /\ UploadPinned /\ IngestPinned /\ NormPinned /\ ChunkPinned /\ EnrichPinned /\ ClassicPinned
NextCache ==
    \/ CacheStoreFullContext /\ UNCHANGED << modeVars, chatVars, srVars, uploadVars, ingestVars, normVars, chunkVars, enrichVars, classicVars >>
    \/ CacheStoreSessionContext /\ UNCHANGED << modeVars, chatVars, srVars, uploadVars, ingestVars, normVars, chunkVars, enrichVars, classicVars >>
    \/ CacheClearSessionContext /\ UNCHANGED << modeVars, chatVars, srVars, uploadVars, ingestVars, normVars, chunkVars, enrichVars, classicVars >>
    \/ CacheGetFullContext /\ UNCHANGED << modeVars, chatVars, srVars, uploadVars, ingestVars, normVars, chunkVars, enrichVars, classicVars >>
    \/ CacheGetAllSessionContext /\ UNCHANGED << modeVars, chatVars, srVars, uploadVars, ingestVars, normVars, chunkVars, enrichVars, classicVars >>
    \/ CacheExpire /\ UNCHANGED << modeVars, chatVars, srVars, uploadVars, ingestVars, normVars, chunkVars, enrichVars, classicVars >>
SpecCache == InitCache /\ [][NextCache]_vars

\* Deleting documents of a session whose context is cached.
InitInvalidate == SessionCachedInit /\ ModePinned /\ SrPinned /\ IngestPinned /\ NormPinned /\ ChunkPinned /\ EnrichPinned /\ ClassicPinned
NextInvalidate ==
    \/ DocumentSoftDelete /\ UNCHANGED << modeVars, chatVars, srVars, ingestVars, cacheVars, normVars, chunkVars, enrichVars, classicVars >>
    \/ CacheGetFullContext /\ UNCHANGED << modeVars, chatVars, srVars, uploadVars, ingestVars, normVars, chunkVars, enrichVars, classicVars >>
    \/ CacheGetAllSessionContext /\ UNCHANGED << modeVars, chatVars, srVars, uploadVars, ingestVars, normVars, chunkVars, enrichVars, classicVars >>
    \/ CacheClearSessionContext /\ UNCHANGED << modeVars, chatVars, srVars, uploadVars, ingestVars, normVars, chunkVars, enrichVars, classicVars >>
    \/ CacheExpire /\ UNCHANGED << modeVars, chatVars, srVars, uploadVars, ingestVars, normVars, chunkVars, enrichVars, classicVars >>
    \/ ChatTurnCached /\ UNCHANGED << modeVars, srVars, uploadVars, ingestVars, cacheVars, normVars, chunkVars, enrichVars, classicVars >>
SpecInvalidate == InitInvalidate /\ [][NextInvalidate]_vars

\* Match normalization on its own.
InitNorm == NormInit /\ ModePinned /\ ChatPinned /\ IndexPinned /\ SrPinned /\ UploadPinned /\ IngestPinned /\ CachePinned /\ ChunkPinned /\ EnrichPinned /\ ClassicPinned
NextNorm == NormalizeCall /\ UNCHANGED << modeVars, chatVars, srVars, uploadVars, ingestVars, cacheVars, chunkVars, enrichVars, classicVars >>
SpecNorm == InitNorm /\ [][NextNorm]_vars

\* chunk_text on its own.
InitChunk == ChunkInit /\ ModePinned /\ ChatPinned /\ IndexPinned /\ SrPinned /\ UploadPinned /\ IngestPinned /\ CachePinned /\ NormPinned /\ EnrichPinned /\ ClassicPinned
NextChunk == ChunkTextTwice /\ UNCHANGED << modeVars, chatVars, srVars, uploadVars, ingestVars, cacheVars, normVars, enrichVars, classicVars >>
SpecChunk == InitChunk /\ [][NextChunk]_vars

\* process_chunk on its own.
InitEnrich == EnrichInit /\ ModePinned /\ ChatPinned /\ IndexPinned /\ SrPinned /\ UploadPinned /\ IngestPinned /\ CachePinned /\ NormPinned /\ ChunkPinned /\ ClassicPinned
NextEnrich == ProcessChunk /\ UNCHANGED << modeVars, chatVars, srVars, uploadVars, ingestVars, cacheVars, normVars, chunkVars, classicVars >>
SpecEnrich == InitEnrich /\ [][NextEnrich]_vars

\* The classic indexing of uploads.
InitClassic == ClassicInit /\ ModePinned /\ ChatPinned /\ IndexPinned /\ SrPinned /\ UploadPinned /\ IngestPinned /\ CachePinned /\ NormPinned /\ ChunkPinned /\ EnrichPinned
NextClassic ==
    \/ ClassicUpload /\ UNCHANGED << modeVars, chatVars, srVars, uploadVars, ingestVars, cacheVars, normVars, chunkVars, enrichVars >>
    \/ ClassicSoftDelete /\ UNCHANGED << modeVars, chatVars, srVars, uploadVars, ingestVars, cacheVars, normVars, chunkVars, enrichVars >>
SpecClassic == InitClassic /\ [][NextClassic]_vars

(***************************************************************************)
(*                             THE CLAIMS                                  *)
(***************************************************************************)

TurnServed == turn.phase = "done" /\ turn.status \notin { 400, 404 }

\* C1: whenever retrieval or the completion call raises in a validated chat
\* turn, the handler still returns its normal response with the apology as
\* the assistant message, persisted after the user message; no exception
\* leaves the handler.
C1_ApologyOnFailure ==
    ( /\ TurnServed /\ turn.exc
      /\ turn.calls[Len(turn.calls)] \in
             { "query_filtered", "query_unfiltered", "complete_full", "complete_ctx" } ) =>
        /\ ~turn.escaped
        /\ turn.status = 201
        /\ turn.assistant = "apology"
        /\ Len(chatMessages) >= 2
        /\ chatMessages[Len(chatMessages) - 1].type = "user"
        /\ chatMessages[Len(chatMessages)] = [ type |-> "assistant", content |-> "apology" ]

\* C2: the mode is full_context exactly when the text is no longer than
\* the threshold, and embeddings otherwise.
C2_ModeBoundary ==
    modeCall.fn # "none" =>
        /\ modeCall.result.mode \in { "full_context", "embeddings" }
        /\ modeCall.result.mode = "full_context" <=> modeCall.len <= full_context_limit

\* C2 witness: a text of exactly threshold characters got full_context.
C2_Witness ==
    /\ modeCall.fn = "get_processing_mode"
    /\ full_context_limit > 0
    /\ modeCall.len = full_context_limit
    /\ modeCall.result.mode = "full_context"

SrPrimaryCount == Len(ExtractMatches(sr.primary))

\* C3 as stated: the unfiltered query is issued exactly when the primary
\* count is below max(3, top_k / 2) with the exact half of top_k.
C3_ExactHalf ==
    (sr.called /\ sr.primary.kind # "raise") =>
        (sr.result.fallback_issued <=> 2 * SrPrimaryCount < Max(6, sr.top_k))

\* C3 amended: the unfiltered query is issued exactly when the primary count
\* is below max(3, top_k // 2) with the floored half; its matches then
\* replace the primary ones, and otherwise the primary matches are returned
\* without a second query.
C3_FlooredHalf ==
    (sr.called /\ sr.primary.kind # "raise") =>
        /\ sr.result.fallback_issued <=> SrPrimaryCount < Max(3, sr.top_k \div 2)
        /\ (sr.result.fallback_issued /\ sr.fallback.kind = "ok") =>
               /\ ~sr.result.raised
               /\ sr.result.calls = << "query_filtered", "query_unfiltered" >>
               /\ Len(sr.result.matches) = Len(sr.fallback.matches)
               /\ \A n \in 1..Len(sr.result.matches) :
                      sr.result.matches[n].id = sr.fallback.matches[n].id
        /\ ~sr.result.fallback_issued =>
               /\ ~sr.result.raised
               /\ sr.result.calls = << "query_filtered" >>
               /\ Len(sr.result.matches) = SrPrimaryCount
               /\ \A n \in 1..SrPrimaryCount :
                      sr.result.matches[n].id = sr.primary.matches[n].id

\* C3 witness: top_k = 7 and three primary matches, returned with no
\* second query.
C3_Witness ==
    /\ sr.called
    /\ sr.top_k = 7
    /\ sr.primary.kind = "ok"
    /\ SrPrimaryCount = 3
    /\ ~sr.result.fallback_issued
    /\ Len(sr.result.matches) = 3

\* C4: when the unfiltered fallback query fails or returns no result object,
\* smart_retrieval does not raise and returns the primary matches.
C4_FallbackSkipped ==
    (sr.called /\ sr.fallback.kind \in { "none", "raise" }) =>
        /\ ~sr.result.raised
        /\ Len(sr.result.matches) = SrPrimaryCount
        /\ \A n \in 1..SrPrimaryCount :
               sr.result.matches[n].id = sr.primary.matches[n].id

TurnEmbeddings == TurnServed /\ turn.status = 201 /\ turn.mode = "embeddings"

\* The matches of all passes of the turn, pooled.
TurnPooled == ExtractMatches(turn.primary) \o ExtractMatches(turn.fallback)

UniqueIds(ms) ==
    \A i, j \in 1..Len(ms) : ms[i].id = ms[j].id => i = j

\* The first entry of the pooled results that has the id and the score.
FirstSeen(id, score) ==
    TurnPooled[CHOOSE k \in 1..Len(TurnPooled) :
                   /\ TurnPooled[k].id = id /\ TurnPooled[k].score = score
                   /\ \A j \in 1..(k - 1) :
                          ~(TurnPooled[j].id = id /\ TurnPooled[j].score = score)]

TextsInOrder(ms) ==
    LET withText == SelectSeq(ms, LAMBDA m : m.metadata.text # 0)
    IN  [ n \in 1..Len(withText) |-> withText[n].metadata.text ]

\* C6: in embeddings mode the completion call gets the fixed placeholder
\* context when no match carries a text, and the request succeeds; otherwise
\* it gets the texts of the matches in their retrieved order.
C6_PlaceholderContext ==
    (turn.phase = "done" /\ turn.ctx_def) =>
        /\ TextsInOrder(turn.norm_matches) = << >> =>
               /\ turn.ctx = [ kind |-> "placeholder", texts |-> << >> ]
               /\ ~turn.exc => (turn.status = 201 /\ turn.assistant = "answer")
        /\ TextsInOrder(turn.norm_matches) # << >> =>
               turn.ctx = [ kind |-> "joined", texts |-> TextsInOrder(turn.norm_matches) ]
        /\ turn.calls[Len(turn.calls)] = "complete_ctx"

\* C6 witness: matches were retrieved, none carries a text, and the turn was
\* answered over the placeholder context.
C6_Witness ==
    /\ TurnEmbeddings
    /\ Len(turn.norm_matches) >= 1
    /\ TextsInOrder(turn.norm_matches) = << >>
    /\ turn.ctx.kind = "placeholder"
    /\ turn.assistant = "answer"

StatusPaths ==
    { << "pending" >>, << "pending", "processing" >>,
      << "pending", "processing", "completed" >>,
      << "pending", "processing", "failed" >> }

\* C7: a document's status only moves along pending -> processing ->
\* completed or failed, and nothing moves it out of completed or failed or
\* back to an earlier status.
C7_StatusPath ==
    \A n \in 1..Len(documents) : documents[n].history \in StatusPaths

UploadCreated ==
    Cardinality({ n \in 1..Len(upload.log) : upload.log[n][2] = "create_pending" })

\* C8: when processing the first of two files fails, the failure is recorded
\* on its document with an error text and the second file is still saved
\* and processed.
C8_BatchContinues ==
    ( /\ upload.phase = "done"
      /\ Len(upload.files) = 2
      /\ upload.files[1] # upload.files[2]
      /\ upload.outcomes[1] \in { "extract_raise", "index_raise" }
      /\ upload.outcomes[2] # "invalid"
      /\ UploadCreated >= 1 ) =>
        /\ UploadCreated = 2
        /\ documents[upload.first_id].processing_error # ""

DocVectors(d) == { v \in ns : v.document_id = d }

\* C9: the delete/upsert pairs of two ingestions of one document never
\* interleave, and once no ingestion is running the vectors stored for a
\* document all come from one ingestion.
C9_CriticalSection ==
    /\ \A w1, w2 \in Workers :
           (w1 # w2 /\ ing[w1].pc = "upsert" /\ ing[w2].pc = "upsert")
               => ing[w1].doc # ing[w2].doc
    /\ InFlight = {} =>
           \A d \in DocIds : \A v1, v2 \in DocVectors(d) : v1.gen = v2.gen

DoneOk(d) == { n \in 1..Len(ingDone) : ingDone[n].doc = d /\ ingDone[n].outcome = "ok" }

\* The chunking input of a finished ingestion: the text and the token
\* counter (the chunk size and overlap are the same in every call).
ChunkingInput(n) == << ingDone[n].text, ingDone[n].encoding >>

StoresTo(s, d) ==
    /\ cacheCall' # cacheCall
    /\ cacheCall'.fn = "store_full_context"
    /\ cacheCall'.session_id = s /\ cacheCall'.document_id = d

\* C16: after store_full_context(s, d, t), get_full_context(s, d) returns
\* exactly t; what get_full_context(s, d) returns changes only by a store
\* under (s, d) (the last write wins) or by the expiry of that entry, never
\* by a write under another key; reads leave the cache as it is.
C16_LastWriteWins ==
    [][ /\ \A s \in CacheSessions, d \in CacheDocs :
            /\ StoresTo(s, d) =>
                   get_full_context(cache', s, d) = Found(cacheCall'.text)
            /\ get_full_context(cache', s, d) # get_full_context(cache, s, d) =>
                   \/ StoresTo(s, d)
                   \/ /\ cacheCall'.fn = "expire"
                      /\ cacheCall'.key = FullContextKey(s, d)
        /\ cacheCall'.fn \in { "get_full_context", "get_all_session_context" } =>
               cache' = cache ]_vars

\* C16 witness: a read returns the text t2 stored for its key while the
\* other document of the session holds t1 and the same document of the other
\* session holds nothing.
C16_Witness ==
    /\ cacheCall.fn = "get_full_context"
    /\ cacheCall.session_id = << "a" >> /\ cacheCall.document_id = << "b", "c" >>
    /\ cacheCall.result = Found("t2")
    /\ get_full_context(cache, << "a" >>, << "c" >>) = Found("t1")
    /\ get_full_context(cache, << "a", "b" >>, << "c" >>) = NotFound
    /\ get_full_context(cache, << "a", "b" >>, << "b", "c" >>) = Found("")

\* C11: once a document is deleted, get_full_context no longer returns its
\* text, get_all_session_context returns no combined text that holds it, and
\* no chat turn of the session takes a cached context that holds it.
C11_InvalidatedOnDelete ==
    [][ \A n \in 1..Len(documents) :
            documents[n].live = "soft" =>
                /\ ( /\ cacheCall' # cacheCall
                     /\ cacheCall'.fn = "get_full_context"
                     /\ cacheCall'.document_id = DocCacheId(n) ) =>
                       cacheCall'.result = NotFound
                /\ ( /\ cacheCall' # cacheCall
                     /\ \/ cacheCall'.fn = "get_all_session_context"
                        \/ /\ cacheCall'.fn = "get_full_context"
                           /\ cacheCall'.document_id = << >>
                     /\ cacheCall'.result.found ) =>
                       DocCacheId(n) \notin Range(cacheCall'.result.combined_text)
                /\ ( /\ turn = NoTurn /\ turn' # NoTurn
                     /\ turn'.full_context = "cache" ) =>
                       DocCacheId(n) \notin
                           Range(get_all_session_context(cache, ChatSessionId).combined_text)
      ]_vars

\* The cache read of the turn returned nothing.
CacheMissed == TurnServed /\ turn.full_context \in { "none", "db" }

QueryCalls == { "query_filtered", "query_unfiltered", "query_classic" }

\* C12: in every chat turn whose cache read misses, the database read of the
\* session's full-context documents comes next, and a vector-store query is
\* issued only if that read gave no text.
C12_DbReadBeforeEmbeddings ==
    CacheMissed =>
        /\ Len(turn.calls) >= 2
        /\ turn.calls[1] = "cache_get"
        /\ turn.calls[2] = "db_read"
        /\ (\E n \in 1..Len(turn.calls) : turn.calls[n] \in QueryCalls) =>
               turn.full_context = "none"

\* C13: a chat request whose message is empty or blank is answered with an
\* error status, no chat message is persisted for it and no cache, database,
\* vector-store or completion call is made.
C13_BlankMessageRejected ==
    [][ (turn' # turn /\ turn'.req.message \in { "", " " }) =>
            /\ turn'.status = 400
            /\ turn'.calls = << >>
            /\ turn'.assistant = "none"
            /\ chatMessages' = chatMessages ]_vars

\* C13 witness: a blank message sent to the user's own session was rejected
\* and the session holds the rows it held before.
C13_Witness ==
    /\ turn.phase = "done"
    /\ turn.req.session_id = TheSession
    /\ turn.req.message = " "
    /\ turn.status = 400
    /\ chatMessages \in EarlierMessages /\ Len(chatMessages) = 2

\* C14: a chat request whose top_k is not an integer, zero or negative is
\* rejected, and no retrieval or completion call is made for it.
C14_InvalidTopKRejected ==
    (turn.phase = "done" /\ turn.req.top_k \in { TopKNotInt, -1, 0 }) =>
        /\ turn.status = 400
        /\ turn.calls = << >>
        /\ turn.assistant = "none"

\* The record {id, score, metadata} of the fields a match carries: None for
\* an id or a score that is not set, {} for metadata that is not set.
Canonical(m) ==
    [ id       |-> IF "id" \in m.fields THEN m.id ELSE NoneVal,
      score    |-> IF "score" \in m.fields THEN m.score ELSE NoneVal,
      metadata |-> IF "metadata" \in m.fields THEN m.metadata ELSE EmptyMetadata ]

\* C15: an object-shaped and a map-shaped match with the same fields are
\* normalized to the same record, which carries the fields' values, for
\* every id, score and metadata, falsy and missing ones included.
C15_UniformNormalization ==
    normCall.called =>
        /\ normCall.obj_result = normCall.map_result
        /\ normCall.obj_result = Canonical(normCall.obj)
        /\ normCall.map_result = Canonical(normCall.map)

\* C15 witness: matches with score 0, empty metadata and no id were
\* normalized to one record with score 0, metadata {} and id None.
C15_Witness ==
    /\ normCall.called
    /\ normCall.obj.fields = { "score", "metadata" }
    /\ normCall.obj.score = 0 /\ normCall.obj.metadata = EmptyMetadata
    /\ normCall.obj_result = [ id |-> NoneVal, score |-> 0, metadata |-> EmptyMetadata ]
    /\ normCall.map_result = normCall.obj_result

\* The (text, hash, index) of each chunk of a result.
Triples(chunks) ==
    [ n \in 1..Len(chunks) |-> << chunks[n].text, chunks[n].hash, chunks[n].index >> ]

\* The chunk at position i (0-based) has index i.
DenselyIndexed(chunks) == \A n \in 1..Len(chunks) : chunks[n].index = n - 1

NormalizedText(text) ==
    SelectSeq([ n \in 1..Len(text) |-> Strip(text[n]) ], LAMBDA piece : piece # "")

\* The chunks joined in index order, each without its overlap paragraphs.
RECURSIVE WithoutOverlaps(_, _)
WithoutOverlaps(chunks, overlaps) ==
    IF chunks = << >> THEN << >>
    ELSE SubSeq(Head(chunks).text, Head(overlaps) + 1, Len(Head(chunks).text))
             \o WithoutOverlaps(Tail(chunks), Tail(overlaps))

\* C18: the chunks, joined in index order without their overlap prefixes,
\* are the paragraphs of the normalized text: each once, in order, none
\* lost; every chunk holds a paragraph that is not overlap.
C18_Coverage ==
    chunkCall.called =>
        /\ Len(chunkCall.overlaps) = Len(chunkCall.first)
        /\ \A n \in 1..Len(chunkCall.first) :
               chunkCall.overlaps[n] < Len(chunkCall.first[n].text)
        /\ WithoutOverlaps(chunkCall.first, chunkCall.overlaps)
               = NormalizedText(chunkCall.text)

\* C18 witness: a text with a padded piece was chunked into a chunk that
\* starts with an overlap paragraph and a chunk that starts at a header.
C18_Witness ==
    /\ chunkCall.called
    /\ NormalizedText(chunkCall.text) # chunkCall.text
    /\ \E n \in 1..Len(chunkCall.first) : chunkCall.overlaps[n] >= 1
    /\ \E n \in 2..Len(chunkCall.first) :
           /\ chunkCall.overlaps[n] = 0
           /\ is_section_header(chunkCall.first[n].text[1])
    /\ WithoutOverlaps(chunkCall.first, chunkCall.overlaps) = NormalizedText(chunkCall.text)

\* An empty or whitespace-only text: every piece of it is blank.
BlankText(text) == text # << >> /\ \A n \in 1..Len(text) : Strip(text[n]) = ""

\* C19: a blank text is chunked into no chunks, and its ingestion returns
\* upserted = 0 without an error: the call ends before the delete and the
\* upsert, with no vector ids.
C19_BlankTextNoChunks ==
    /\ \A w \in Workers : ing[w].pc # "idle" => ~BlankText(ing[w].text)
    /\ \A n \in 1..Len(ingDone) :
           BlankText(ingDone[n].text) =>
               /\ chunk_text(ingDone[n].text, CHUNK_SIZE, CHUNK_OVERLAP,
                             ingDone[n].encoding) = << >>
               /\ ingDone[n].outcome = "ok"
               /\ ingDone[n].upserted = 0
               /\ ingDone[n].ids = {}

\* C19 witness: a blank text was ingested for a document that has vectors
\* in the store, and the call returned upserted = 0.
C19_Witness ==
    \E n \in 1..Len(ingDone) :
        /\ BlankText(ingDone[n].text)
        /\ ingDone[n].outcome = "ok"
        /\ ingDone[n].upserted = 0
        /\ \E v \in ns : v.document_id = ingDone[n].doc

\* The LLM was asked for and is not there: the client cannot be
\* constructed, the call fails, or it returns nothing.
LlmDegraded ==
    /\ enrichCall.called
    /\ enrichCall.use_llm_extraction
    /\ enrichCall.use_llm_enrichment
    /\ \/ enrichCall.construct = "raise"
       \/ enrichCall.outcome \in { "raise", "none", "empty" }

\* C20: when the LLM enrichment fails, returns nothing or its client cannot
\* be constructed, process_chunk does not raise and returns the metadata
\* and the embedding text of regex-only processing.
C20_TransparentDegrade ==
    LlmDegraded =>
        /\ ~enrichCall.result.raised
        /\ enrichCall.result.metadata = enrichCall.regex_only.metadata
        /\ enrichCall.result.enriched_text = enrichCall.regex_only.enriched_text

\* C20 witness: with a client constructed, the enrichment call for a chunk
\* with entities raised, and the result is the regex-only one, which an
\* answered call would have extended by a topic.
C20_Witness ==
    /\ LlmDegraded
    /\ enrichCall.construct = "ok"
    /\ enrichCall.outcome = "raise"
    /\ enrichCall.chunk.text = "payment"
    /\ enrichCall.result = enrichCall.regex_only
    /\ enrichCall.result.metadata.entity_counts.amounts = 1
    /\ process_chunk(SemanticProcessor(TRUE, "ok"), enrichCall.chunk, TRUE, "topic")
           # enrichCall.regex_only

\* C21: every chunk of a result has a token count of at most max_tokens.
C21_WithinMaxTokens ==
    chunkCall.called =>
        \A n \in 1..Len(chunkCall.first) :
            /\ chunkCall.first[n].tokens
                   = TokensOf(chunkCall.first[n].text, chunkCall.encodings[1])
            /\ chunkCall.first[n].tokens <= Tenths * chunkCall.max_tokens

\* The position in the normalized text of the first paragraph of chunk n
\* that is not overlap.
RECURSIVE OwnStart(_, _, _)
OwnStart(chunks, overlaps, n) ==
    IF n = 1 THEN 1
    ELSE OwnStart(chunks, overlaps, n - 1)
             + Len(chunks[n - 1].text) - overlaps[n - 1]

\* The section of the most recent header among the first k paragraphs.
RECURSIVE SectionAt(_, _)
SectionAt(paragraphs, k) ==
    IF k = 0 THEN NoSection
    ELSE IF is_section_header(paragraphs[k]) THEN extract_section_number(paragraphs[k])
    ELSE SectionAt(paragraphs, k - 1)

\* C22: a header is the first paragraph of its chunk, all paragraphs of a
\* chunk lie in one section, and the section of a chunk is that of the
\* most recent header at or before its first paragraph, none before the
\* first header.
C22_HeadersStartChunks ==
    chunkCall.called =>
        LET chunks     == chunkCall.first
            paragraphs == NormalizedText(chunkCall.text)
        IN  \A n \in 1..Len(chunks) :
                LET own   == OwnStart(chunks, chunkCall.overlaps, n)
                    start == own - chunkCall.overlaps[n]
                IN  /\ \A k \in 2..Len(chunks[n].text) :
                           ~is_section_header(chunks[n].text[k])
                    /\ chunks[n].text
                           = SubSeq(paragraphs, start, start + chunkCall.overlaps[n] - 1)
                               \o SubSeq(paragraphs, own,
                                         own + Len(chunks[n].text) - chunkCall.overlaps[n] - 1)
                    /\ \A k \in start..(own + Len(chunks[n].text) - chunkCall.overlaps[n] - 1) :
                           SectionAt(paragraphs, k) = chunks[n].section
                    /\ chunks[n].section = SectionAt(paragraphs, start)

\* C22 witness: a text with paragraphs before its first header and two
\* headers was chunked; the chunks carry no section, then each header's.
C22_Witness ==
    /\ chunkCall.called
    /\ Len(chunkCall.first) = 3
    /\ chunkCall.first[1].section = NoSection
    /\ chunkCall.first[2].section = "1.0"
    /\ chunkCall.first[3].section = "2.0"
    /\ is_section_header(chunkCall.first[2].text[1])
    /\ is_section_header(chunkCall.first[3].text[1])

\* C23: every chunk but the first begins with overlap paragraphs taken
\* from the end of the chunk before it (at least its last paragraph, when
\* that fits in overlap_tokens), the overlap holds at most overlap_tokens
\* tokens, and the hash is that of the whole chunk text.
C23_OverlapPrefixes ==
    chunkCall.called =>
        LET chunks == chunkCall.first
        IN  \A n \in 1..Len(chunks) :
                LET prefix == SubSeq(chunks[n].text, 1, chunkCall.overlaps[n])
                IN  /\ chunks[n].hash = sha256(chunks[n].text)
                    /\ TokensOf(prefix, chunkCall.encodings[1])
                           <= Tenths * chunkCall.overlap_tokens
                    /\ n >= 2 =>
                           /\ count_tokens(chunks[n - 1].text[Len(chunks[n - 1].text)],
                                           chunkCall.encodings[1])
                                  <= Tenths * chunkCall.overlap_tokens
                              => prefix # << >>
                           /\ prefix = SubSeq(chunks[n - 1].text,
                                              Len(chunks[n - 1].text) - Len(prefix) + 1,
                                              Len(chunks[n - 1].text))

\* The documents of a session whose per-document entry is live.
LiveDocs(s) == { d \in CacheDocs : cache[FullContextKey(s, d)] # NoEntry }

\* C24: while per-document entries stored by store_full_context are live
\* for a session, get_all_session_context of the session returns a text,
\* and the text joins those of all these documents.
C24_SessionContextMerged ==
    \A s \in CacheSessions :
        LiveDocs(s) # {} =>
            /\ get_all_session_context(cache, s).found
            /\ \A d \in LiveDocs(s) :
                   d \in Range(get_all_session_context(cache, s).combined_text)

\* C25: for a query with a keyword trigger, smart_retrieval issues a query
\* of its own beside the primary one, and the matches of the primary query
\* are among the pooled matches it returns.
C25_AuxiliaryQueriesPooled ==
    (sr.called /\ sr.keyword /\ ~sr.result.raised) =>
        /\ Len(sr.result.calls) >= 2
        /\ \A n \in 1..Len(ExtractMatches(sr.primary)) :
               \E k \in 1..Len(sr.result.matches) :
                   sr.result.matches[k].id = ExtractMatches(sr.primary)[n].id

\* C26: in every chat response the reported retrieval mode is the path that
\* was taken: full_context exactly when the turn made one completion call
\* over the full text and no vector-store query, embeddings exactly when
\* the turn queried the vector store and built its context from the matches.
C26_ModeMatchesPath ==
    (turn.phase = "done" /\ turn.status = 201) =>
        LET queried  == \E n \in 1..Len(turn.calls) : turn.calls[n] \in QueryCalls
            fullCall == { n \in 1..Len(turn.calls) : turn.calls[n] = "complete_full" }
        IN  /\ turn.mode \in { "full_context", "embeddings" }
            /\ turn.mode = "full_context" <=>
                   (Cardinality(fullCall) = 1 /\ ~queried /\ ~turn.ctx_def)
            /\ turn.mode = "embeddings" <=>
                   (queried /\ fullCall = {} /\ turn.ctx_def)

\* A turn answered from the documents of the database, the cache being empty.
C26_Witness ==
    /\ turn.phase = "done" /\ turn.status = 201
    /\ use_enhanced_rag
    /\ turn.full_context = "db"
    /\ turn.mode = "full_context"
    /\ turn.assistant = "answer"

\* C27: in one session namespace the vector ids written for two different
\* live documents are disjoint, so indexing an uploaded document never
\* overwrites a vector of another document of the session.
C27_DisjointVectorIds ==
    \A i, j \in 1..Len(classicDocs) :
        (i # j /\ classicDocs[i].live = "live" /\ classicDocs[j].live = "live") =>
            classicDocs[i].written \cap classicDocs[j].written = {}

C29_ExactlyTheNewVectors ==
    ((\A w \in Workers : ing[w].pc = "idle") /\ ingDone # << >>) =>
        LET last   == ingDone[Len(ingDone)]
            stored == { v \in ns : v.document_id = last.doc }
            chunks == chunk_text(last.text, CHUNK_SIZE, CHUNK_OVERLAP, last.encoding)
        IN  last.outcome = "ok" =>
                /\ { v.id : v \in stored } = last.ids
                /\ Cardinality(stored) = Len(chunks)
                /\ \A v \in stored : v.gen = last.gen

\* C30: the top_k of a chat turn is max(12, requested), and 12 when the
\* request carries none or one that is no integer; so the unfiltered query
\* follows every primary query of a turn that returned fewer than 6 matches.
C30_TopKAtLeastTwelve ==
    TurnServed =>
        LET raw      == turn.req.top_k
            expected == IF raw \in { TopKMissing, TopKNotInt } THEN 12 ELSE Max(12, raw)
            smart    == "query_filtered" \in Range(turn.calls)
        IN  /\ turn.mode = "embeddings" => turn.top_k = expected
            /\ Max(3, expected \div 2) >= 6
            /\ (smart /\ turn.primary.kind # "raise") =>
                   /\ Len(ExtractMatches(turn.primary)) < 6 =>
                          "query_unfiltered" \in Range(turn.calls)
                   /\ "query_unfiltered" \in Range(turn.calls) <=>
                          Len(ExtractMatches(turn.primary)) < Max(3, expected \div 2)

\* A turn whose top_k is no integer and whose filtered query returned three
\* matches: the unfiltered query is issued and top_k = 12 is reported.
C30_Witness ==
    /\ TurnServed
    /\ turn.req.top_k = TopKNotInt
    /\ turn.mode = "embeddings"
    /\ turn.top_k = 12
    /\ turn.primary.kind = "ok"
    /\ Len(ExtractMatches(turn.primary)) = 3
    /\ "query_unfiltered" \in Range(turn.calls)

==========================================================================
